-------------------------- MODULE AppDaemonProofs --------------------------
(***************************************************************************)
(* The safety of the app daemon, for any clients, any number of requests   *)
(* and crashes, and a pipe of any size.                                    *)
(***************************************************************************)
EXTENDS AppDaemon, TLAPS

\* The actions, as the cases of the proofs below.
LEMMA Steps ==
    ASSUME Next
    PROVE  \/ CheckIn \/ MkIn \/ CreateOut \/ InstallHandlers
           \/ OpenIn \/ TakeRequest \/ OpenOut \/ SendTimeout
           \/ WriteReply \/ WriteDrained \/ WriteFits
           \/ RemoveIn \/ RemoveOut \/ Exit
           \/ Terminate \/ Crash \/ Start \/ Restart \/ StopFailed
           \/ \E c \in Clients :
                 \/ \E k \in Kinds : ClientRequest(c, k)
                 \/ ClientSend(c) \/ ClientOpenOut(c) \/ ClientRead(c)
                 \/ ClientGiveUp(c)
BY Zenon DEF Next, DaemonStep, ClientStep

-----------------------------------------------------------------------------
(* Type correctness.                                                        *)

LEMMA EmptyBuffers == <<>> \in Seq(Requests) /\ <<>> \in Seq(0..MaxRequests)
OBVIOUS

LEMMA OneRequest == ASSUME NEW r \in Requests PROVE <<r>> \in Seq(Requests)
OBVIOUS

LEMMA FirstElement ==
    ASSUME NEW S, NEW s \in Seq(S), s # <<>>
    PROVE  1 \in DOMAIN s /\ s[1] \in S /\ Head(s) = s[1]
OBVIOUS

LEMMA AppendedElements ==
    ASSUME NEW S, NEW s \in Seq(S), NEW e \in S
    PROVE  \A i \in DOMAIN Append(s, e) :
              \/ Append(s, e)[i] = e
              \/ i \in DOMAIN s /\ Append(s, e)[i] = s[i]
OBVIOUS

LEMMA KeptType ==
    ASSUME outBuf \in Seq(0..MaxRequests)
    PROVE  \A readers : Kept(outBuf, readers) \in Seq(0..MaxRequests)
BY EmptyBuffers DEF Kept

\* Moving clients, unlinking a FIFO and closing it keep everyone in a state.
LEMMA MovesKeepType ==
    ASSUME DaemonTypeOK
    PROVE  /\ \A a, b \in ClientStates : Moved(a, b) \in [Clients -> ClientStates]
           /\ \A states, end : Unlinked(states, end) \in [Clients -> Pipes]
BY DEF Moved, Unlinked, Pipes, DaemonTypeOK

LEMMA ClosedType ==
    ASSUME DaemonTypeOK, Closed
    PROVE  /\ fd' = "none" /\ handlers' = FALSE
           /\ trapped' \in 0..Signals /\ reply' \in 0..MaxRequests
           /\ cl' \in [Clients -> ClientStates]
           /\ pipe' \in [Clients -> Pipes]
<1>1. 0 \in 0..Signals /\ 0 \in 0..MaxRequests
  BY MaxRequestsAssumption DEF Signals
<1>2. cl' \in [Clients -> ClientStates] /\ pipe' \in [Clients -> Pipes]
  BY DEF Closed, DaemonTypeOK, ClientStates, Pipes
<1> QED
  BY <1>1, <1>2 DEF Closed

\* Every variable keeps its type, whatever the clients, systemd and the daemon
\* do (app/daemon.rs).
THEOREM DaemonTypeCorrect == Spec => []DaemonTypeOK
<1>1. Init => DaemonTypeOK
  <2>1. NoRequest \in Requests
    BY MaxRequestsAssumption DEF NoRequest, Requests, Kinds
  <2>2. 0 \in 0..MaxRequests /\ 0 \in 0..MaxCrashes /\ 0 \in 0..Signals
    BY MaxRequestsAssumption, MaxCrashesAssumption DEF Signals
  <2> QED
    BY <2>1, <2>2, EmptyBuffers
       DEF Init, DaemonTypeOK, ClientStates, Pipes, Running, Ended
<1>2. DaemonTypeOK /\ [Next]_vars => DaemonTypeOK'
  <2> SUFFICES ASSUME DaemonTypeOK, Next PROVE DaemonTypeOK'
    BY DEF vars, proc, fifos, clients, history, DaemonTypeOK
  <2> USE DEF proc, fifos, clients, history, Running, Ended, Leaving
  <2>1. CASE CheckIn \/ MkIn \/ CreateOut \/ InstallHandlers
    BY <2>1, EmptyBuffers DEF CheckIn, MkIn, CreateOut, InstallHandlers, DaemonTypeOK
  <2>2. CASE OpenIn
    <3>1. cl' \in [Clients -> ClientStates]
      BY <2>2, MovesKeepType DEF OpenIn, ClientStates
    <3> QED
      BY <2>2, <3>1 DEF OpenIn, DaemonTypeOK
  <2>3. CASE TakeRequest
    <3>1. ReplyId(inBuf) \in 0..MaxRequests
      <4>1. CASE inBuf = <<>>
        BY <4>1, MaxRequestsAssumption DEF ReplyId
      <4>2. CASE inBuf # <<>>
        <5>1. inBuf[1] \in Requests
          BY <4>2, FirstElement DEF DaemonTypeOK
        <5> QED
          BY <4>2, <5>1 DEF ReplyId, Requests
      <4> QED
        BY <4>1, <4>2
    <3>2. inBuf' \in Seq(Requests)
      BY <2>3, EmptyBuffers DEF TakeRequest, InLeft, DaemonTypeOK
    <3>3. CASE NotUtf8(inBuf)
      <4>1. pc' = "failed" /\ Closed
        BY <2>3, <3>3 DEF TakeRequest
      <4> QED
        BY <2>3, <3>2, <4>1, ClosedType DEF TakeRequest, DaemonTypeOK
    <3>4. CASE ~NotUtf8(inBuf)
      <4>1. /\ pc' \in {"rmIn", "send"} /\ reply' \in {0, ReplyId(inBuf)}
            /\ fd' = "none"
            /\ UNCHANGED <<handlers, trapped, cl, pipe>>
        BY <2>3, <3>4 DEF TakeRequest
      <4> QED
        BY <2>3, <3>1, <3>2, <4>1, MaxRequestsAssumption DEF TakeRequest, DaemonTypeOK
    <3> QED
      BY <3>3, <3>4
  <2>4. CASE OpenOut
    <3>1. cl' \in [Clients -> ClientStates]
      BY <2>4, MovesKeepType DEF OpenOut, ClientStates
    <3> QED
      BY <2>4, <3>1 DEF OpenOut, DaemonTypeOK
  <2>5. CASE SendTimeout
    BY <2>5, MaxRequestsAssumption DEF SendTimeout, DaemonTypeOK
  <2>6. CASE WriteReply
    <3>1. Append(outBuf, reply) \in Seq(0..MaxRequests)
      BY DEF DaemonTypeOK
    <3>2. reply' \in 0..MaxRequests
      BY <2>6, MaxRequestsAssumption DEF WriteReply
    <3>3. /\ pc' \in Running /\ fd' \in {"none", "in", "out"}
          /\ outBuf' \in Seq(0..MaxRequests)
      BY <2>6, <3>1, EmptyBuffers DEF WriteReply, DaemonTypeOK
    <3> QED
      BY <2>6, <3>2, <3>3 DEF WriteReply, DaemonTypeOK
  <2>7. CASE WriteDrained \/ WriteFits
    BY <2>7, KeptType DEF WriteDrained, WriteFits, WriteEnds, DaemonTypeOK
  <2>8. CASE RemoveIn
    <3>1. pipe' \in [Clients -> Pipes]
      BY <2>8, MovesKeepType DEF RemoveIn
    <3> QED
      BY <2>8, <3>1, EmptyBuffers DEF RemoveIn, DaemonTypeOK
  <2>9. CASE RemoveOut
    <3>1. pipe' \in [Clients -> Pipes]
      BY <2>9, MovesKeepType DEF RemoveOut
    <3>2. rest' \in [Clients -> Seq(0..MaxRequests)]
      BY <2>9 DEF RemoveOut, DaemonTypeOK
    <3> QED
      BY <2>9, <3>1, <3>2, EmptyBuffers DEF RemoveOut, DaemonTypeOK
  <2>10. CASE Exit
    BY <2>10, ClosedType DEF Exit, DaemonTypeOK
  <2>11. CASE Terminate
    <3>1. CASE handlers
      BY <2>11, <3>1 DEF Terminate, DaemonTypeOK, Signals
    <3>2. CASE ~handlers
      BY <2>11, <3>2, ClosedType DEF Terminate, DaemonTypeOK
    <3> QED
      BY <3>1, <3>2
  <2>12. CASE Crash
    <3>1. /\ inBuf' \in Seq(Requests) /\ outBuf' \in Seq(0..MaxRequests)
          /\ crashes' \in 0..MaxCrashes
      BY <2>12, EmptyBuffers, KeptType, MaxCrashesAssumption
         DEF Crash, InLeft, DaemonTypeOK
    <3> QED
      BY <2>12, <3>1, ClosedType DEF Crash, DaemonTypeOK
  <2>13. CASE Start \/ Restart \/ StopFailed
    BY <2>13 DEF Start, Restart, StopFailed, Boot, DaemonTypeOK
  <2>14. ASSUME NEW c \in Clients, NEW k \in Kinds, ClientRequest(c, k)
         PROVE  DaemonTypeOK'
    <3>1. nreq' \in 0..MaxRequests /\ nreq' = nreq + 1
      BY <2>14, MaxRequestsAssumption DEF ClientRequest, DaemonTypeOK
    <3>2. req'[c] \in Requests
      BY <2>14, <3>1 DEF ClientRequest, DaemonTypeOK, Requests
    <3>3. /\ nreq' \in 0..MaxRequests
          /\ req' \in [Clients -> Requests]
          /\ got' \in [Clients -> {NoReply} \cup 0..MaxRequests]
          /\ overlapped' \subseteq Clients
      BY <2>14, <3>1 DEF ClientRequest, DaemonTypeOK, Active, Requests
    <3>4. /\ pc' \in Running \cup Ended
          /\ fd' \in {"none", "in", "out"}
          /\ inFile' \in {"none", "plain", "fifo"}
          /\ inBuf' \in Seq(Requests)
          /\ cl' \in [Clients -> ClientStates]
      BY <2>14, <3>2, OneRequest DEF ClientRequest, DaemonTypeOK, ClientStates
    <3> QED
      BY <2>14, <3>3, <3>4 DEF ClientRequest, DaemonTypeOK
  <2>15. ASSUME NEW c \in Clients, ClientSend(c) PROVE DaemonTypeOK'
    BY <2>15 DEF ClientSend, DaemonTypeOK, ClientStates, Pipes
  <2>16. ASSUME NEW c \in Clients, ClientOpenOut(c) PROVE DaemonTypeOK'
    BY <2>16 DEF ClientOpenOut, DaemonTypeOK, ClientStates
  <2>17. ASSUME NEW c \in Clients, ClientRead(c) PROVE DaemonTypeOK'
    <3>1. Content(c) # <<>> => Head(Content(c)) \in 0..MaxRequests
      BY FirstElement DEF Content, DaemonTypeOK
    <3>2. got' \in [Clients -> {NoReply} \cup 0..MaxRequests]
      BY <2>17, <3>1 DEF ClientRead, DaemonTypeOK
    <3> QED
      BY <2>17, <3>2, EmptyBuffers DEF ClientRead, DaemonTypeOK, ClientStates, Pipes
  <2>18. ASSUME NEW c \in Clients, ClientGiveUp(c) PROVE DaemonTypeOK'
    BY <2>18, KeptType, EmptyBuffers DEF ClientGiveUp, DaemonTypeOK, ClientStates, Pipes
  <2> QED
    BY <2>1, <2>2, <2>3, <2>4, <2>5, <2>6, <2>7, <2>8, <2>9, <2>10, <2>11, <2>12, <2>13,
       <2>14, <2>15, <2>16, <2>17, <2>18, Steps
<1> QED
  BY <1>1, <1>2, PTL DEF Spec

-----------------------------------------------------------------------------
(* A lone client reads its own reply.                                       *)

\* What the daemon has open, by where it is; the loop runs with the handlers
\* installed, and the out-FIFO is gone before the process.
DaemonHolds ==
    /\ pc \in {"open", "reading", "send", "write", "flush"} \cup Leaving => handlers
    /\ pc = "reading" => fd = "in"
    /\ fd = "in" => pc \in {"reading"} \cup Leaving
    /\ pc \in {"write", "flush"} => fd = "out"
    /\ fd = "out" => pc \in {"write", "flush"} \cup Leaving
    /\ pc = "exit" => outBuf = <<>>

\* A client has the in-FIFO open only while the daemon has; an unlinked one is the
\* daemon's as long as it has not left.
WritersAreRead ==
    \A c \in Clients :
        /\ cl[c] = "write" => fd = "in" /\ pipe[c] # "deserted"
        /\ pipe[c] = "unlinked" => pc \in Leaving

\* Only who has or waits for a FIFO can be on an unlinked one, and only a reader
\* finds something in it.
UnlinkedAreHeld ==
    \A c \in Clients :
        /\ cl[c] \in {"idle", "sent"} => pipe[c] = "path"
        /\ rest[c] # <<>> => cl[c] = "read" /\ pipe[c] # "path"

\* Nothing is in the out-FIFO when neither side has it open.
PipeDropsUnread == Readers = {} /\ fd # "out" => outBuf = <<>>

\* What is true while c is at work and nobody has come to disturb it: the FIFOs
\* and the daemon hold its request, the reply to it, or nothing that c can reach.
Alone(c) ==
    /\ \A d \in Clients \ {c} : d \notin Active
    /\ inFile # "plain"
    /\ cl[c] \in {"openIn", "write"} => inBuf = <<>>
    /\ cl[c] \in {"sent", "openOut", "read"} =>
          /\ inBuf \in {<<>>, <<req[c]>>}
          /\ pc = "reading" => inBuf = <<req[c]>>
          /\ pc \in {"send", "write"} => reply = req[c].id
    /\ cl[c] \in {"write", "sent", "openOut"} => fd # "out" /\ outBuf = <<>>
    /\ cl[c] = "read" => \A i \in DOMAIN outBuf : outBuf[i] = req[c].id

LonersAreAlone == \A c \in Active \ overlapped : Alone(c)

\* What it left behind in an unlinked FIFO is its own, whoever came after it.
RestIsOwn ==
    \A c \in Clients \ overlapped : \A i \in DOMAIN rest[c] : rest[c][i] = req[c].id

LonerInv ==
    /\ DaemonHolds
    /\ WritersAreRead
    /\ UnlinkedAreHeld
    /\ PipeDropsUnread
    /\ LonersAreAlone
    /\ RestIsOwn
    /\ OwnReply

\* Where the process's end leaves the clients.
LEMMA ClosedClients ==
    ASSUME DaemonTypeOK, Closed, NEW c \in Clients
    PROVE  \/ cl[c] = "write" /\ cl'[c] = "idle" /\ pipe'[c] = "path"
           \/ /\ cl[c] # "write" /\ cl'[c] = cl[c]
              /\ pipe'[c] = IF pipe[c] = "unlinked" THEN "deserted" ELSE pipe[c]
BY DEF Closed, DaemonTypeOK

\* Where a removal leaves them.
LEMMA UnlinkedClients ==
    ASSUME NEW states, NEW end, NEW c \in Clients
    PROVE  Unlinked(states, end)[c] =
              IF cl[c] \in states /\ pipe[c] = "path"
              THEN IF fd = end THEN "unlinked" ELSE "deserted"
              ELSE pipe[c]
BY DEF Unlinked, At

LEMMA MovedClients ==
    ASSUME NEW a, NEW b, NEW c \in Clients
    PROVE  Moved(a, b)[c] = IF cl[c] = a /\ pipe[c] = "path" THEN b ELSE cl[c]
BY DEF Moved

\* A client that is not joined by another never reads the reply to another
\* request, whoever left before it and whatever becomes of the daemon (run, send).
THEOREM LonerGetsOwnReply == Spec => []OwnReply
<1>1. Init => LonerInv
  BY DEF Init, LonerInv, DaemonHolds, WritersAreRead, UnlinkedAreHeld, PipeDropsUnread,
         LonersAreAlone, Active, RestIsOwn, OwnReply, Leaving
<1>2. DaemonTypeOK /\ LonerInv /\ [Next]_vars => LonerInv'
  <2> SUFFICES ASSUME DaemonTypeOK, LonerInv, Next PROVE LonerInv'
    <3>1. UNCHANGED vars /\ LonerInv => LonerInv'
      BY DEF vars, proc, fifos, clients, history, LonerInv, DaemonHolds, WritersAreRead,
             UnlinkedAreHeld, PipeDropsUnread, Readers, At, LonersAreAlone, Active, Alone,
             RestIsOwn, OwnReply
    <3> QED
      BY <3>1
  <2> USE DEF LonerInv, DaemonHolds, WritersAreRead, UnlinkedAreHeld, PipeDropsUnread,
              LonersAreAlone, Alone, RestIsOwn, OwnReply, Active, Readers, At, Leaving,
              proc, fifos, clients, history
  <2>1. CASE CheckIn \/ MkIn
    BY <2>1 DEF CheckIn, MkIn
  <2>2. CASE CreateOut \/ InstallHandlers
    BY <2>2 DEF CreateOut, InstallHandlers
  <2>3. CASE OpenIn
    <3>1. /\ pc = "open" /\ pc' = "reading" /\ fd' = "in"
          /\ inFile = "plain" \/ \E c \in Clients : cl[c] = "openIn" /\ pipe[c] = "path"
          /\ UNCHANGED <<handlers, inFile, inBuf, outBuf, reply, pipe, rest, req, got,
                         overlapped>>
      BY <2>3 DEF OpenIn, Blocked
    <3>2. \A c \in Clients :
             cl'[c] = IF cl[c] = "openIn" /\ pipe[c] = "path" THEN "write" ELSE cl[c]
      BY <2>3, MovedClients DEF OpenIn
    <3>3. DaemonHolds' /\ WritersAreRead' /\ UnlinkedAreHeld' /\ RestIsOwn' /\ OwnReply'
      BY <3>1, <3>2
    <3>4. PipeDropsUnread'
      BY <3>1, <3>2
    <3>5. LonersAreAlone'
      BY <3>1, <3>2
    <3> QED
      BY <3>3, <3>4, <3>5
  <2>4. CASE TakeRequest
    <3>4. /\ pc = "reading" /\ inBuf' = InLeft
          /\ UNCHANGED <<inFile, outBuf, rest, req, got, overlapped>>
      BY <2>4 DEF TakeRequest
    <3>5. \A c \in Clients : cl[c] # "write" \/ pipe[c] # "path"
      BY <2>4 DEF TakeRequest, Writers
    <3>6. \A c \in Clients : cl[c] = "write" => pipe[c] = "path"
      BY <3>4 DEF DaemonTypeOK, Pipes
    <3>0. /\ pc = "reading" /\ \A c \in Clients : cl[c] # "write"
          /\ inBuf' = InLeft
          /\ UNCHANGED <<inFile, outBuf, rest, req, got, overlapped>>
      BY <3>4, <3>5, <3>6
    <3>1. CASE NotUtf8(inBuf)
      <4>1. pc' = "failed" /\ Closed
        BY <2>4, <3>1 DEF TakeRequest
      <4>2. \A c \in Clients : cl'[c] = cl[c] /\ pipe'[c] = pipe[c]
        BY <3>0, <4>1, ClosedClients
      <4> QED
        BY <3>0, <4>1, <4>2 DEF InLeft, Closed
    <3>2. CASE ~NotUtf8(inBuf) /\ IsStop(inBuf)
      <4>1. pc' = "rmIn" /\ fd' = "none" /\ UNCHANGED <<handlers, cl, pipe>>
        BY <2>4, <3>2 DEF TakeRequest
      <4> QED
        BY <3>0, <4>1 DEF InLeft
    <3>3. CASE ~NotUtf8(inBuf) /\ ~IsStop(inBuf)
      <4>1. /\ pc' = "send" /\ reply' = ReplyId(inBuf) /\ fd' = "none"
            /\ UNCHANGED <<handlers, cl, pipe>>
        BY <2>4, <3>3 DEF TakeRequest
      <4> QED
        BY <3>0, <4>1 DEF ReplyId, InLeft
    <3> QED
      BY <3>1, <3>2, <3>3
  <2>5. CASE OpenOut
    <3>1. /\ pc = "send" /\ pc' = "write" /\ fd' = "out"
          /\ \E c \in Clients : cl[c] \in {"openOut", "read"} /\ pipe[c] = "path"
          /\ UNCHANGED <<handlers, inFile, inBuf, outBuf, reply, pipe, rest, req, got,
                         overlapped>>
      BY <2>5 DEF OpenOut
    <3>2. \A c \in Clients :
             cl'[c] = IF cl[c] = "openOut" /\ pipe[c] = "path" THEN "read" ELSE cl[c]
      BY <2>5, MovedClients DEF OpenOut
    <3>3. DaemonHolds' /\ WritersAreRead' /\ UnlinkedAreHeld' /\ RestIsOwn' /\ OwnReply'
          /\ PipeDropsUnread'
      BY <3>1, <3>2
    <3>4. LonersAreAlone'
      BY <3>1, <3>2
    <3> QED
      BY <3>3, <3>4
  <2>6. CASE SendTimeout
    BY <2>6 DEF SendTimeout
  <2>7. CASE WriteReply
    <3>0. /\ pc = "write"
          /\ UNCHANGED <<handlers, inFile, inBuf, cl, pipe, rest, req, got, overlapped>>
      BY <2>7 DEF WriteReply
    <3>1. CASE Readers = {}
      BY <2>7, <3>1 DEF WriteReply
    <3>2. CASE Readers # {}
      <4>1. pc' = "flush" /\ outBuf' = Append(outBuf, reply) /\ fd' = fd
        BY <2>7, <3>2 DEF WriteReply
      <4>2. \A i \in DOMAIN outBuf' : outBuf'[i] = reply \/ (i \in DOMAIN outBuf
                                                          /\ outBuf'[i] = outBuf[i])
        BY <4>1, AppendedElements DEF DaemonTypeOK
      <4>3. DaemonHolds' /\ WritersAreRead' /\ UnlinkedAreHeld' /\ PipeDropsUnread'
            /\ RestIsOwn' /\ OwnReply'
        BY <3>0, <4>1
      <4>4. LonersAreAlone'
        BY <3>0, <3>2, <4>1, <4>2
      <4> QED
        BY <4>3, <4>4
    <3> QED
      BY <3>1, <3>2
  <2>8. CASE WriteDrained \/ WriteFits
    BY <2>8 DEF WriteDrained, WriteFits, WriteEnds, Kept
  <2>9. CASE RemoveIn
    <3>1. /\ pc = "rmIn" /\ pc' = "rmOut" /\ inFile' = "none" /\ inBuf' = <<>>
          /\ UNCHANGED <<fd, handlers, reply, outBuf, cl, rest, req, got, overlapped>>
      BY <2>9 DEF RemoveIn
    <3>2. \A c \in Clients :
             pipe'[c] = IF cl[c] \in {"openIn", "write"} /\ pipe[c] = "path"
                        THEN IF fd = "in" THEN "unlinked" ELSE "deserted"
                        ELSE pipe[c]
      BY <2>9, UnlinkedClients DEF RemoveIn
    <3>3. DaemonHolds' /\ WritersAreRead' /\ UnlinkedAreHeld' /\ RestIsOwn' /\ OwnReply'
      BY <3>1, <3>2
    <3>4. PipeDropsUnread'
      BY <3>1, <3>2
    <3>5. LonersAreAlone'
      BY <3>1, <3>2
    <3> QED
      BY <3>3, <3>4, <3>5
  <2>10. CASE RemoveOut
    <3>1. /\ pc = "rmOut" /\ pc' = "exit" /\ outBuf' = <<>>
          /\ UNCHANGED <<fd, handlers, reply, inFile, inBuf, cl, req, got, overlapped>>
      BY <2>10 DEF RemoveOut
    <3>2. \A c \in Clients :
             pipe'[c] = IF cl[c] \in {"openOut", "read"} /\ pipe[c] = "path"
                        THEN IF fd = "out" THEN "unlinked" ELSE "deserted"
                        ELSE pipe[c]
      BY <2>10, UnlinkedClients DEF RemoveOut
    <3>3. \A c \in Clients :
             \/ rest'[c] = rest[c]
             \/ rest'[c] = outBuf /\ cl[c] = "read" /\ pipe[c] = "path"
      BY <2>10 DEF RemoveOut, DaemonTypeOK
    <3>4. DaemonHolds' /\ WritersAreRead' /\ UnlinkedAreHeld' /\ PipeDropsUnread'
          /\ OwnReply'
      BY <3>1, <3>2, <3>3
    <3>5. RestIsOwn'
      BY <3>1, <3>3
    <3>6. LonersAreAlone'
      BY <3>1, <3>2
    <3> QED
      BY <3>4, <3>5, <3>6
  <2>11. CASE Exit
    <3>1. /\ pc = "exit" /\ pc' = "off" /\ Closed /\ fd' = "none"
          /\ UNCHANGED <<inFile, inBuf, outBuf, rest, req, got, overlapped>>
      BY <2>11 DEF Exit, Closed
    <3>2. LonerInv'
      BY <3>1, ClosedClients
    <3> QED
      BY <3>2
  <2>12. CASE Terminate
    <3>0. UNCHANGED <<inFile, inBuf, outBuf, rest, req, got, overlapped>>
      BY <2>12 DEF Terminate
    <3>1. CASE handlers
      <4>1. pc' = "rmIn" /\ UNCHANGED <<fd, handlers, reply, cl, pipe>>
        BY <2>12, <3>1 DEF Terminate
      <4> QED
        BY <3>0, <3>1, <4>1
    <3>2. CASE ~handlers
      <4>1. pc' = "dead" /\ Closed /\ fd = "none" /\ fd' = "none"
        BY <2>12, <3>2 DEF Terminate, Closed, DaemonTypeOK
      <4> QED
        BY <3>0, <4>1, ClosedClients
    <3> QED
      BY <3>1, <3>2
  <2>13. CASE Crash
    <3>1. /\ pc' = "failed" /\ Closed /\ fd' = "none"
          /\ inBuf' = InLeft /\ outBuf' = Kept(outBuf, Readers)
          /\ UNCHANGED <<inFile, rest, req, got, overlapped>>
      BY <2>13 DEF Crash, Closed
    <3>2. DaemonHolds' /\ WritersAreRead' /\ UnlinkedAreHeld' /\ RestIsOwn' /\ OwnReply'
      BY <3>1, ClosedClients
    <3>3. PipeDropsUnread'
      BY <3>1, ClosedClients DEF Kept
    <3>4. LonersAreAlone'
      BY <3>1, ClosedClients DEF Kept, InLeft
    <3> QED
      BY <3>2, <3>3, <3>4
  <2>14. CASE Start \/ Restart \/ StopFailed
    BY <2>14 DEF Start, Restart, StopFailed, Boot
  <2>15. ASSUME NEW c \in Clients, NEW k \in Kinds, ClientRequest(c, k)
         PROVE  LonerInv'
    <3>1. /\ req' = [req EXCEPT ![c] = [id |-> nreq + 1, kind |-> k]]
          /\ got' = [got EXCEPT ![c] = NoReply]
          /\ UNCHANGED <<handlers, reply, outBuf, pipe, rest>>
          /\ cl[c] = "idle" /\ pipe[c] = "path"
      BY <2>15 DEF ClientRequest
    <3>2. /\ pc' = pc \/ (pc = "open" /\ pc' = "reading")
          /\ fd' = fd \/ fd' = "in"
          /\ fd' = "in" => pc' \in {"reading"} \cup Leaving
          /\ fd' # "in" => pc' = pc
          /\ cl' = [cl EXCEPT ![c] = cl'[c]]
          /\ cl'[c] \in {"write", "openIn", "sent", "idle"}
          /\ cl'[c] = "write" => fd' = "in"
          /\ cl'[c] = "openIn" => fd' = fd
          /\ inFile = "fifo" => inFile' = "fifo" /\ inBuf' = inBuf
                                /\ cl'[c] \in {"write", "openIn"}
      BY <2>15 DEF ClientRequest, DaemonTypeOK
    <3>3. fd' = fd \/ fd = "none"
      <4>1. fd' = fd \/ pc = "open"
        BY <2>15 DEF ClientRequest
      <4> QED
        BY <4>1 DEF DaemonTypeOK
    <3>4. overlapped' = IF Active = {} /\ inBuf = <<>> /\ inFile = "fifo"
                        THEN overlapped \ {c}
                        ELSE overlapped \cup Active \cup {c}
      BY <2>15 DEF ClientRequest
    <3>5. DaemonHolds' /\ WritersAreRead' /\ UnlinkedAreHeld'
      BY <3>1, <3>2 DEF DaemonTypeOK
    <3>6. PipeDropsUnread'
      <4>1. \A d \in Readers : d \in Readers'
        BY <3>1, <3>2 DEF DaemonTypeOK
      <4> QED
        BY <3>1, <3>3, <4>1
    <3>7. OwnReply' /\ RestIsOwn'
      BY <3>1, <3>4 DEF DaemonTypeOK
    <3>8. ASSUME NEW d \in Clients \ overlapped', d \in Active'
          PROVE  d = c /\ Active = {} /\ inBuf = <<>> /\ inFile = "fifo"
      BY <3>1, <3>2, <3>4, <3>8 DEF DaemonTypeOK
    <3>9. LonersAreAlone'
      <4> SUFFICES ASSUME NEW d \in Active', d \notin overlapped' PROVE Alone(d)'
        OBVIOUS
      <4>1. d = c /\ Active = {} /\ inBuf = <<>> /\ inFile = "fifo"
        BY <3>8
      <4>2. \A e \in Clients \ {c} : e \notin Active'
        BY <3>1, <3>2, <4>1 DEF DaemonTypeOK
      <4>3. cl'[c] = "write" => fd' # "out" /\ outBuf' = <<>>
        <5>1. Readers = {} /\ (cl'[c] = "write" => fd' = "in")
          BY <3>2, <4>1
        <5>2. cl'[c] = "write" => fd # "out"
          BY <3>3, <5>1
        <5> QED
          BY <3>1, <5>1, <5>2
      <4>4. Alone(c)'
        BY <3>1, <3>2, <4>1, <4>2, <4>3 DEF DaemonTypeOK
      <4> QED
        BY <4>1, <4>4
    <3> QED
      BY <3>5, <3>6, <3>7, <3>9
  <2>16. ASSUME NEW c \in Clients, ClientSend(c) PROVE LonerInv'
    <3>1. inBuf = <<>> => inBuf' \in {<<>>, <<req[c]>>}
      BY <2>16 DEF ClientSend, DaemonTypeOK
    <3>2. pipe[c] = "path" /\ inBuf = <<>> => inBuf' = <<req[c]>>
      BY <2>16 DEF ClientSend, DaemonTypeOK
    <3>3. /\ cl[c] = "write" /\ cl' = [cl EXCEPT ![c] = cl'[c]]
          /\ cl'[c] \in {"idle", "sent"} /\ pipe' = [pipe EXCEPT ![c] = "path"]
          /\ UNCHANGED <<pc, fd, handlers, reply, inFile, outBuf, rest, req, got,
                         overlapped>>
      BY <2>16 DEF ClientSend, DaemonTypeOK
    <3>4. DaemonHolds' /\ WritersAreRead' /\ UnlinkedAreHeld' /\ RestIsOwn' /\ OwnReply'
          /\ PipeDropsUnread'
      BY <3>3 DEF DaemonTypeOK
    <3>5. LonersAreAlone'
      BY <3>1, <3>2, <3>3 DEF DaemonTypeOK, Pipes
    <3> QED
      BY <3>4, <3>5
  <2>17. ASSUME NEW c \in Clients, ClientOpenOut(c) PROVE LonerInv'
    BY <2>17 DEF ClientOpenOut, DaemonTypeOK
  <2>18. ASSUME NEW c \in Clients, ClientRead(c) PROVE LonerInv'
    <3>1. /\ cl[c] = "read" /\ cl' = [cl EXCEPT ![c] = "idle"]
          /\ pipe' = [pipe EXCEPT ![c] = "path"] /\ rest' = [rest EXCEPT ![c] = <<>>]
          /\ outBuf' = IF pipe[c] = "path" THEN <<>> ELSE outBuf
          /\ UNCHANGED <<pc, fd, handlers, reply, inFile, inBuf, req, overlapped>>
      BY <2>18 DEF ClientRead
    <3>2. got' = [got EXCEPT ![c] = IF AtEnd(c) THEN @ ELSE Content(c)[1]]
          /\ (~AtEnd(c) => 1 \in DOMAIN Content(c))
      BY <2>18, FirstElement DEF ClientRead, Content, DaemonTypeOK
    <3>3. c \notin overlapped => \A i \in DOMAIN Content(c) : Content(c)[i] = req[c].id
      BY <3>1 DEF Content
    <3>4. OwnReply'
      BY <3>1, <3>2, <3>3 DEF DaemonTypeOK
    <3>5. DaemonHolds' /\ WritersAreRead' /\ UnlinkedAreHeld' /\ RestIsOwn'
          /\ PipeDropsUnread'
      BY <3>1 DEF DaemonTypeOK
    <3>6. LonersAreAlone'
      BY <3>1 DEF DaemonTypeOK
    <3> QED
      BY <3>4, <3>5, <3>6
  <2>19. ASSUME NEW c \in Clients, ClientGiveUp(c) PROVE LonerInv'
    <3>1. /\ cl' = [cl EXCEPT ![c] = "idle"] /\ pipe' = [pipe EXCEPT ![c] = "path"]
          /\ rest' = [rest EXCEPT ![c] = <<>>]
          /\ outBuf' = IF fd = "out" THEN outBuf ELSE Kept(outBuf, Readers \ {c})
          /\ UNCHANGED <<pc, fd, handlers, reply, inFile, inBuf, req, got, overlapped>>
      BY <2>19 DEF ClientGiveUp
    <3>2. DaemonHolds' /\ WritersAreRead' /\ UnlinkedAreHeld' /\ RestIsOwn' /\ OwnReply'
      BY <3>1 DEF DaemonTypeOK, Kept
    <3>3. PipeDropsUnread'
      BY <3>1 DEF DaemonTypeOK, Kept
    <3>4. LonersAreAlone'
      BY <3>1 DEF DaemonTypeOK, Kept
    <3> QED
      BY <3>2, <3>3, <3>4
  <2> QED
    BY <2>1, <2>2, <2>3, <2>4, <2>5, <2>6, <2>7, <2>8, <2>9, <2>10, <2>11, <2>12,
       <2>13, <2>14, <2>15, <2>16, <2>17, <2>18, <2>19, Steps
<1>3. LonerInv => OwnReply
  BY DEF LonerInv
<1> QED
  BY <1>1, <1>2, <1>3, DaemonTypeCorrect, PTL DEF Spec
=============================================================================
