------------------------------ MODULE AppDaemon ------------------------------
(***************************************************************************)
(* The app daemon of app/daemon.rs: one process that reads requests from   *)
(* the FIFO wsmr-app-daemon-in and answers on wsmr-app-daemon-out, its     *)
(* clients, and systemd, which starts, stops and restarts it.              *)
(*                                                                         *)
(* The FIFOs follow fifo(7): an open for writing waits for a reader and an *)
(* open for reading for a writer, a process counts as reader or writer as  *)
(* soon as it calls open, a read ends when the last writer closes, and     *)
(* what is in the pipe is gone when nobody has it open.  An unlinked FIFO  *)
(* is out of reach for every process that opens the path afterwards; those *)
(* that have it keep it, and those that wait for it to be opened wait on.  *)
(*                                                                         *)
(* Clients are those of tests/integration/smoke.sh: write the request, and *)
(* then read the first line of the reply, giving up at any time.  They are *)
(* not told to wait for each other.                                        *)
(***************************************************************************)
EXTENDS Integers, Sequences

CONSTANTS
    Clients,      \* the processes that talk to the daemon
    MaxRequests,  \* bound: requests sent in all
    MaxCrashes,   \* bound: times the daemon is killed without a signal it traps
    PipeLines     \* replies that fit in the pipe with nobody reading them

ASSUME MaxRequestsAssumption == MaxRequests \in Nat
ASSUME MaxCrashesAssumption == MaxCrashes \in Nat
ASSUME PipeLinesAssumption == PipeLines \in Nat

VARIABLES
    pc,          \* where the daemon is in run(), or in on_term_signal
    handlers,    \* the signal handlers are installed
    trapped,     \* the signals whose handler is running
    fd,          \* the FIFO the daemon has open
    inFile,      \* what is at the path of the in-FIFO
    outFile,     \* what is at the path of the out-FIFO
    inBuf,       \* the requests in it, in the order they were written
    reply,       \* the request that the reply in hand answers, or 0
    outBuf,      \* the replies in the out-FIFO, as the requests they answer
    cl,          \* where each client is
    pipe,        \* which FIFO a client has open or waits for
    rest,        \* what a client finds in a FIFO that was unlinked
    req,         \* the last request of each client
    got,         \* the request whose reply the client has read
    nreq,        \* requests so far
    crashes,     \* crashes so far
    overlapped   \* history: clients that did not have the FIFOs to themselves

fifos == <<inFile, outFile, inBuf, outBuf>>
proc == <<handlers, trapped, reply>>      \* the process, without pc and fd
clients == <<cl, pipe, rest>>
history == <<req, got, nreq, crashes, overlapped>>
vars == <<pc, fd, proc, fifos, clients, history>>

\* "app", "ping", an empty or an unknown command are all answered.
Kinds == {"query", "stop", "notUtf8"}
Requests == [id : 0..MaxRequests, kind : Kinds]
NoRequest == [id |-> 0, kind |-> "query"]
NoReply == -1

\* In these the daemon is a live process; the others say how it ended.
Leaving == {"rmIn", "rmOut", "exit"}    \* remove_fifos, on_term_signal
Running == {"chkIn", "mkIn", "mkOut", "install", "open", "reading", "send",
            "write", "flush"} \cup Leaving
Ended == {"off",      \* it removed its FIFOs and exited 0
          "dead",     \* it died of a signal before the handlers were in
          "failed"}   \* it exited with an error: systemd restarts it

\* SIGTERM, SIGINT and SIGHUP: each is blocked while its own handler runs.
Signals == 3

ClientStates == {"idle", "openIn", "write", "sent", "openOut", "read"}

\* The FIFO at the path, or an unlinked one: as long as the daemon has it open,
\* and then for ever without a daemon.
Pipes == {"path", "unlinked", "deserted"}

DaemonTypeOK ==
    /\ pc \in Running \cup Ended
    /\ handlers \in BOOLEAN
    /\ trapped \in 0..Signals
    /\ fd \in {"none", "in", "out"}
    /\ inFile \in {"none", "plain", "fifo"}
    /\ outFile \in {"none", "fifo"}
    /\ inBuf \in Seq(Requests)
    /\ reply \in 0..MaxRequests
    /\ outBuf \in Seq(0..MaxRequests)
    /\ cl \in [Clients -> ClientStates]
    /\ pipe \in [Clients -> Pipes]
    /\ rest \in [Clients -> Seq(0..MaxRequests)]
    /\ req \in [Clients -> Requests]
    /\ got \in [Clients -> {NoReply} \cup 0..MaxRequests]
    /\ nreq \in 0..MaxRequests
    /\ crashes \in 0..MaxCrashes
    /\ overlapped \subseteq Clients

Init ==
    /\ pc = "off"
    /\ handlers = FALSE
    /\ trapped = 0
    /\ fd = "none"
    /\ inFile = "none"
    /\ outFile = "none"
    /\ inBuf = <<>>
    /\ reply = 0
    /\ outBuf = <<>>
    /\ cl = [c \in Clients |-> "idle"]
    /\ pipe = [c \in Clients |-> "path"]
    /\ rest = [c \in Clients |-> <<>>]
    /\ req = [c \in Clients |-> NoRequest]
    /\ got = [c \in Clients |-> NoReply]
    /\ nreq = 0
    /\ crashes = 0
    /\ overlapped = {}

-----------------------------------------------------------------------------
(* Who has which FIFO open.                                                 *)

\* The clients in one of these states at the FIFO that the path leads to.
At(s, states) == {c \in Clients : s[c] \in states /\ pipe[c] = "path"}
Blocked == At(cl, {"openIn"})
Writers == At(cl, {"write"})
Readers == At(cl, {"openOut", "read"})

\* The clients after a move of those waiting at the path in state a to state b.
Moved(a, b) ==
    [c \in Clients |-> IF cl[c] = a /\ pipe[c] = "path" THEN b ELSE cl[c]]

\* What is in a FIFO is gone when nobody has it open; a plain file keeps it.
Kept(buf, readers) == IF readers = {} THEN <<>> ELSE buf
InLeft == IF inFile = "plain" THEN inBuf ELSE <<>>

\* Where the clients in one of these states are once the path is unlinked.
Unlinked(states, end) ==
    [c \in Clients |-> IF c \notin At(cl, states) THEN pipe[c]
                       ELSE IF fd = end THEN "unlinked" ELSE "deserted"]

\* The process is gone and what it had open is closed: a client that writes dies
\* of SIGPIPE, one that reads comes to the end of the file.
Closed ==
    /\ fd' = "none"
    /\ handlers' = FALSE
    /\ trapped' = 0
    /\ reply' = 0
    /\ cl' = [c \in Clients |-> IF cl[c] = "write" THEN "idle" ELSE cl[c]]
    /\ pipe' = [c \in Clients |-> IF cl[c] = "write" THEN "path"
                                  ELSE IF pipe[c] = "unlinked" THEN "deserted"
                                  ELSE pipe[c]]

-----------------------------------------------------------------------------
(* The daemon: run(), first the two create_fifo calls before the handlers   *)
(* are installed and then the loop.                                         *)

\* Mutant: a FIFO that is already there is replaced as well.
CheckIn_Recreate ==
    /\ pc = "chkIn"
    /\ pc' = "mkIn"
    /\ inFile' = "none"
    /\ inBuf' = <<>>
    /\ pipe' = Unlinked({"openIn"}, "in")
    /\ UNCHANGED <<fd, proc, outFile, outBuf, cl, rest, history>>

\* create_fifo(in): keep a FIFO, remove anything else.
CheckIn ==
    /\ pc = "chkIn"
    /\ IF inFile = "fifo"
       THEN pc' = "mkOut" /\ UNCHANGED <<inFile, inBuf>>
       ELSE pc' = "mkIn" /\ inFile' = "none" /\ inBuf' = <<>>
    /\ UNCHANGED <<fd, proc, outFile, outBuf, clients, history>>

\* mkfifo(in); EEXIST is no error, whatever a client created in between.
MkIn ==
    /\ pc = "mkIn"
    /\ pc' = "mkOut"
    /\ inFile' = IF inFile = "none" THEN "fifo" ELSE inFile
    /\ UNCHANGED <<fd, proc, outFile, inBuf, outBuf, clients, history>>

\* create_fifo(out): nobody else creates a file there.
CreateOut ==
    /\ pc = "mkOut"
    /\ pc' = IF handlers THEN "open" ELSE "install"
    /\ outFile' = "fifo"
    /\ UNCHANGED <<fd, proc, inFile, inBuf, outBuf, clients, history>>

InstallHandlers ==
    /\ pc = "install"
    /\ handlers' = TRUE
    /\ pc' = "chkIn"
    /\ UNCHANGED <<fd, trapped, reply, fifos, clients, history>>

\* read_to_string(in): the open returns when somebody writes, and lets in every
\* client that waited for a reader.  A plain file is read at once.
OpenIn ==
    /\ pc = "open"
    /\ inFile = "plain" \/ Blocked # {}
    /\ pc' = "reading"
    /\ fd' = "in"
    /\ cl' = Moved("openIn", "write")
    /\ UNCHANGED <<proc, fifos, pipe, rest, history>>

\* Mutant: an empty request yields no reply to send.
ReplyId_NoArgs(batch) == IF batch = <<>> THEN NoReply ELSE batch[1].id

\* The arguments of all the writers make one request, decided by its first
\* word; no word at all is answered too.
ReplyId(batch) == IF batch = <<>> THEN 0 ELSE batch[1].id
IsStop(batch) == batch # <<>> /\ batch[1].kind = "stop"
NotUtf8(batch) == \E i \in DOMAIN batch : batch[i].kind = "notUtf8"

\* The read ends when the last writer has closed.
TakeRequest ==
    /\ pc = "reading"
    /\ Writers = {}
    /\ inBuf' = InLeft
    /\ IF NotUtf8(inBuf) THEN pc' = "failed" /\ Closed
       ELSE /\ IF IsStop(inBuf) THEN pc' = "rmIn" /\ reply' = 0
               ELSE pc' = "send" /\ reply' = ReplyId(inBuf)
            /\ fd' = "none"
            /\ UNCHANGED <<handlers, trapped, cl, pipe>>
    /\ UNCHANGED <<inFile, outFile, outBuf, rest, history>>

\* open_fifo_for_write_bounded finds a reader, waiting or not.
OpenOut ==
    /\ pc = "send"
    /\ Readers # {}
    /\ pc' = "write"
    /\ fd' = "out"
    /\ cl' = Moved("openOut", "read")
    /\ UNCHANGED <<proc, fifos, pipe, rest, history>>

\* Mutant: a plain open for writing, which waits for a reader without end.
SendTimeout_Blocks == pc = "send" /\ Readers # {} /\ UNCHANGED vars

\* Mutant: an O_RDWR open, never closed, that needs no reader and keeps the reply.
SendTimeout_Leaves ==
    /\ pc = "send"
    /\ Readers = {}
    /\ pc' = "chkIn"
    /\ outBuf' = Append(outBuf, reply)
    /\ UNCHANGED <<fd, proc, inFile, outFile, inBuf, clients, history>>

\* ... or none for SEND_TIMEOUT; send_reply logs it and the loop goes on.
SendTimeout ==
    /\ pc = "send"
    /\ Readers = {}
    /\ pc' = "chkIn"
    /\ reply' = 0
    /\ UNCHANGED <<fd, handlers, trapped, fifos, clients, history>>

\* write_all: an error when the reader is gone by now.
WriteReply ==
    /\ pc = "write"
    /\ IF Readers = {}
       THEN pc' = "chkIn" /\ fd' = "none" /\ outBuf' = <<>>
       ELSE pc' = "flush" /\ UNCHANGED fd /\ outBuf' = Append(outBuf, reply)
    /\ reply' = 0
    /\ UNCHANGED <<handlers, trapped, inFile, outFile, inBuf, clients, history>>

\* Mutant: the FIFO stays open for the next reply.
WriteEnds_KeepsOpen ==
    /\ pc' = "chkIn"
    /\ UNCHANGED <<fd, proc, fifos, clients, history>>

\* A blocking write ends when the reader has taken it or is gone; one that fits
\* in the pipe may end before.  Then the FIFO is closed.
WriteEnds ==
    /\ pc' = "chkIn"
    /\ fd' = "none"
    /\ outBuf' = Kept(outBuf, Readers)
    /\ UNCHANGED <<proc, inFile, outFile, inBuf, clients, history>>
WriteDrained ==
    /\ pc = "flush"
    /\ outBuf = <<>> \/ Readers = {}
    /\ WriteEnds
WriteFits ==
    /\ pc = "flush"
    /\ Len(outBuf) <= PipeLines
    /\ WriteEnds

\* remove_fifos and on_term_signal: first the in-FIFO is unlinked, ...
RemoveIn ==
    /\ pc = "rmIn"
    /\ pc' = "rmOut"
    /\ inFile' = "none"
    /\ inBuf' = <<>>
    /\ pipe' = Unlinked({"openIn", "write"}, "in")
    /\ UNCHANGED <<fd, proc, outFile, outBuf, cl, rest, history>>

\* ... then the out-FIFO.  Of the clients that have it open, the one that reads
\* first gets what is in it ...
RemoveOut ==
    /\ pc = "rmOut"
    /\ pc' = "exit"
    /\ outFile' = "none"
    /\ outBuf' = <<>>
    /\ pipe' = Unlinked({"openOut", "read"}, "out")
    /\ IF outBuf = <<>> \/ At(cl, {"read"}) = {} THEN UNCHANGED rest
       ELSE \E first \in At(cl, {"read"}) : rest' = [rest EXCEPT ![first] = outBuf]
    /\ UNCHANGED <<fd, proc, inFile, inBuf, cl, history>>

\* ... and the process exits 0.
Exit ==
    /\ pc = "exit"
    /\ pc' = "off"
    /\ Closed
    /\ UNCHANGED <<fifos, rest, history>>

DaemonStep ==
    \/ CheckIn \/ MkIn \/ CreateOut \/ InstallHandlers
    \/ OpenIn \/ TakeRequest
    \/ OpenOut \/ SendTimeout \/ WriteReply \/ WriteDrained
    \/ RemoveIn \/ RemoveOut \/ Exit

-----------------------------------------------------------------------------
(* systemd, and whatever else ends a process.                               *)

\* SIGTERM, SIGINT, SIGHUP: on_term_signal once it is installed, whatever the
\* daemon is at (another signal's handler and remove_fifos included); before
\* that the default action, which leaves the files alone.  A call of open that
\* is interrupted is over: the daemon no longer waits for a writer.
Terminate ==
    /\ pc \in Running
    /\ IF handlers
       THEN /\ trapped < Signals
            /\ trapped' = trapped + 1
            /\ pc' = "rmIn"
            /\ UNCHANGED <<fd, handlers, reply, cl, pipe>>
       ELSE pc' = "dead" /\ Closed
    /\ UNCHANGED <<fifos, rest, history>>

\* Any other death: the FIFOs stay, their contents do not.
Crash ==
    /\ pc \in Running
    /\ crashes < MaxCrashes
    /\ crashes' = crashes + 1
    /\ pc' = "failed"
    /\ inBuf' = InLeft
    /\ outBuf' = Kept(outBuf, Readers)
    /\ Closed
    /\ UNCHANGED <<inFile, outFile, rest, req, got, nreq, overlapped>>

Boot ==
    /\ pc' = "chkIn"
    /\ UNCHANGED <<fd, proc, fifos, clients, history>>
Start == pc \in {"off", "dead"} /\ Boot

\* Restart=on-failure, until the unit is stopped.
Restart == pc = "failed" /\ Boot
StopFailed ==
    /\ pc = "failed"
    /\ pc' = "dead"
    /\ UNCHANGED <<fd, proc, fifos, clients, history>>

-----------------------------------------------------------------------------
(* The clients.                                                             *)

\* The clients that may still write a request or read a reply at the path.
Active == {c \in Clients : cl[c] # "idle" /\ (pipe[c] = "path" \/ cl[c] = "write")}

\* printf ... > in.  Without a FIFO the shell's redirection makes a plain file.
ClientRequest(c, k) ==
    /\ cl[c] = "idle"
    /\ nreq < MaxRequests
    /\ nreq' = nreq + 1
    /\ req' = [req EXCEPT ![c] = [id |-> nreq + 1, kind |-> k]]
    /\ got' = [got EXCEPT ![c] = NoReply]
    /\ overlapped' = IF Active = {} /\ inBuf = <<>> /\ inFile = "fifo"
                     THEN overlapped \ {c}
                     ELSE overlapped \cup Active \cup {c}
    /\ \/ /\ inFile = "fifo"
          /\ pc = "open" \/ fd = "in"
          /\ pc' = IF pc = "open" THEN "reading" ELSE pc
          /\ fd' = "in"
          /\ cl' = [cl EXCEPT ![c] = "write"]
          /\ UNCHANGED <<inFile, inBuf>>
       \/ /\ inFile = "fifo"
          /\ pc # "open" /\ fd # "in"
          /\ cl' = [cl EXCEPT ![c] = "openIn"]
          /\ UNCHANGED <<pc, fd, inFile, inBuf>>
       \/ /\ inFile # "fifo"
          /\ inFile' = "plain"
          /\ inBuf' = <<req'[c]>>
          /\ cl' = [cl EXCEPT ![c] = IF k = "stop" THEN "idle" ELSE "sent"]
          /\ UNCHANGED <<pc, fd>>
    /\ UNCHANGED <<proc, outFile, outBuf, pipe, rest, crashes>>

\* The request is written and the FIFO closed; a stop expects no reply.  What goes
\* into an unlinked FIFO is never read.
ClientSend(c) ==
    /\ cl[c] = "write"
    /\ inBuf' = IF pipe[c] = "path" THEN Append(inBuf, req[c]) ELSE inBuf
    /\ cl' = [cl EXCEPT ![c] = IF req[c].kind = "stop" THEN "idle" ELSE "sent"]
    /\ pipe' = [pipe EXCEPT ![c] = "path"]
    /\ UNCHANGED <<pc, fd, proc, inFile, outFile, outBuf, rest, history>>

\* head -1 out, which fails if there is no such file.
ClientOpenOut(c) ==
    /\ cl[c] = "sent"
    /\ cl' = [cl EXCEPT ![c] = IF outFile = "none" THEN "idle"
                               ELSE IF fd = "out" THEN "read"
                               ELSE "openOut"]
    /\ UNCHANGED <<pc, fd, proc, fifos, pipe, rest, history>>

\* The first line, and all else in the pipe with it; or the end of the file.
Content(c) == IF pipe[c] = "path" THEN outBuf ELSE rest[c]
AtEnd(c) ==
    /\ Content(c) = <<>>
    /\ IF pipe[c] = "path" THEN fd # "out" ELSE pipe[c] = "deserted"
ClientRead(c) ==
    /\ cl[c] = "read"
    /\ Content(c) # <<>> \/ AtEnd(c)
    /\ got' = [got EXCEPT ![c] = IF AtEnd(c) THEN @ ELSE Head(Content(c))]
    /\ outBuf' = IF pipe[c] = "path" THEN <<>> ELSE outBuf
    /\ rest' = [rest EXCEPT ![c] = <<>>]
    /\ cl' = [cl EXCEPT ![c] = "idle"]
    /\ pipe' = [pipe EXCEPT ![c] = "path"]
    /\ UNCHANGED <<pc, fd, proc, inFile, outFile, inBuf, req, nreq, crashes, overlapped>>

\* The client dies or runs out of patience.
ClientGiveUp(c) ==
    /\ cl[c] # "idle"
    /\ cl' = [cl EXCEPT ![c] = "idle"]
    /\ pipe' = [pipe EXCEPT ![c] = "path"]
    /\ rest' = [rest EXCEPT ![c] = <<>>]
    /\ outBuf' = IF fd = "out" THEN outBuf ELSE Kept(outBuf, Readers \ {c})
    /\ UNCHANGED <<pc, fd, proc, inFile, outFile, inBuf, history>>

ClientStep(c) ==
    \/ \E k \in Kinds : ClientRequest(c, k)
    \/ ClientSend(c) \/ ClientOpenOut(c) \/ ClientRead(c) \/ ClientGiveUp(c)

Next ==
    \/ DaemonStep \/ WriteFits
    \/ Terminate \/ Crash \/ Start \/ Restart \/ StopFailed
    \/ \E c \in Clients : ClientStep(c)

Spec == Init /\ [][Next]_vars

\* The daemon is scheduled, its timeout expires and systemd restarts it.  A
\* client that has a FIFO open uses it or dies; that a client ever comes back
\* for its reply is not assumed, and neither is that the daemon is stopped.
FairSpec ==
    /\ Spec
    /\ WF_vars(DaemonStep)
    /\ WF_vars(Restart)
    /\ \A c \in Clients : WF_vars(ClientSend(c)) /\ WF_vars(ClientRead(c))

-----------------------------------------------------------------------------
(* What the daemon promises.                                                *)

\* A client that finds a FIFO, no request in it and no other client at work, and
\* is not joined by one, never reads the reply to another request, although an
\* earlier client may have left while the daemon waited to send its reply, or the
\* daemon may have been stopped or restarted (run, send, send_reply).
OwnReply ==
    \A c \in Clients \ overlapped : got[c] \in {NoReply, req[c].id}

\* The module's header says that signal trapping is omitted and that the daemon
\* exits "on `stop` or a default SIGTERM": a signal ends the process where it is
\* and touches no file (on_term_signal).
SignalsAreDefault == [][Terminate => pc' = "dead"]_vars

\* Whatever its clients do, the daemon gets back to waiting for a request, or
\* ends: a client that gave up does not wedge the loop (send_reply, and the
\* bounded open of open_fifo_for_write_bounded).
DaemonReturns ==
    (pc \in Running) ~> (pc = "open" \/ pc \in Ended)

\* A client that waits for the daemon to open the in-FIFO at the path gets in,
\* also when the daemon fails and is restarted meanwhile, unless the daemon is
\* told to stop: create_fifo keeps the FIFO the client waits on.
WaitingClientGetsIn ==
    \A c \in Clients :
        (c \in Blocked) ~>
            (cl[c] # "openIn" \/ pc \in Leaving \cup {"off", "dead"})

\* A client that has the out-FIFO open is not left hanging in it: it gets a line
\* or the end of the file, although another client took the reply, or a stop, a
\* signal or a crash ended the daemon before, in the middle of or after the write
\* (send closes the FIFO after every reply; so does the daemon's exit).
ReaderIsReleased ==
    \A c \in Clients : (cl[c] = "read") ~> (cl[c] # "read")
=============================================================================
