----------------------------- MODULE FieldCodes -----------------------------
(***************************************************************************)
(* From an entry's Exec and the caller's arguments to command lines        *)
(* (src/app/field.rs, gen_entry_args).  A token of Exec is what its field  *)
(* codes make of it: the letters after its % signs, whether it is nothing  *)
(* but that code, whether it holds an escaped %%.  An output word says     *)
(* which token or argument it stands for and what was put into it.         *)
(***************************************************************************)
EXTENDS Naturals, Sequences, SequencesExt

CONSTANTS
    UrlArgs      \* the arguments that already have a URI scheme

Token == [fields : Seq(STRING), alone : BOOLEAN, pct : BOOLEAN]

Deprecated == {"d", "D", "n", "N", "v", "m"}

NoArg == ""

\* Output words: a token as it stands, a token with an argument put in, an
\* argument of its own (as a path or a URL), something of the entry's.
Lit(tok)       == [is |-> "lit",  tok |-> tok, arg |-> NoArg, url |-> FALSE]
Put(tok, a, u) == [is |-> "put",  tok |-> tok, arg |-> a,     url |-> u]
Of(letter)     == [is |-> "ctx",  tok |-> letter, arg |-> NoArg, url |-> FALSE]

\* path2url: what has a scheme stays as it is.
Path2Url(a) == a \notin UrlArgs

Has(tok, letter)  == Contains(tok.fields, letter)
Only(tok, letter) == tok.alone /\ tok.fields = <<letter>>

\* The field code seen so far is the first f, F, u or U; a second is an error.
NothingYet == [ok |-> TRUE, out |-> <<>>, fu |-> <<>>, idx |-> 0]

Bad(st) == [st EXCEPT !.ok = FALSE]

Push(st, words) == [st EXCEPT !.out = @ \o words]

\* %f and %u: nothing without an argument, the argument if there is one, and
\* the token itself to be filled in per instance if there are several.  url:
\* %u, which makes URLs of paths.
Single(st, tok, args, url) ==
    IF st.fu # <<>> THEN Bad(st)
    ELSE [st EXCEPT !.fu = <<tok>>, !.idx = Len(st.out) + 1,
                    !.out = @ \o (IF args = <<>> THEN <<>>
                                  ELSE IF Len(args) = 1
                                  THEN <<Put(tok, args[1], url /\ Path2Url(args[1]))>>
                                  ELSE <<Lit(tok)>>)]

\* %F and %U: all of them.
Several(st, tok, args, url) ==
    IF st.fu # <<>> THEN Bad(st)
    ELSE [st EXCEPT !.fu = <<tok>>,
                    !.out = @ \o [i \in DOMAIN args |-> Put(tok, args[i], url /\ Path2Url(args[i]))]]

\* One turn of the loop: the branches in the code's order.
Expand(st, tok, args, icon) ==
    IF ~st.ok THEN st
    ELSE IF Len(tok.fields) > 1 THEN Bad(st)
    ELSE IF tok.pct THEN Push(st, <<Lit(tok)>>)
    ELSE IF \E l \in Deprecated : Has(tok, l) THEN st
    ELSE IF Has(tok, "f") THEN Single(st, tok, args, FALSE)
    ELSE IF Only(tok, "F") THEN Several(st, tok, args, FALSE)
    ELSE IF ~tok.alone /\ Has(tok, "F") THEN Bad(st)
    ELSE IF Has(tok, "u") THEN Single(st, tok, args, TRUE)
    ELSE IF Only(tok, "U") THEN Several(st, tok, args, TRUE)
    ELSE IF ~tok.alone /\ Has(tok, "U") THEN Bad(st)
    ELSE IF Only(tok, "c") THEN Push(st, <<Of("c")>>)
    ELSE IF Only(tok, "k") THEN Push(st, <<Of("k")>>)
    ELSE IF Only(tok, "i") THEN Push(st, IF icon THEN <<Of("--icon"), Of("i")>> ELSE <<>>)
    ELSE Push(st, <<Lit(tok)>>)

\* Mutant: the first argument fills every instance.
Instance_First(st, args, i) ==
    LET tok == st.fu[1]
    IN [st.out EXCEPT ![st.idx] = Put(tok, args[1], Has(tok, "u") /\ Path2Url(args[1]))]

\* The command line for the i-th argument of a field that takes one.
Instance(st, args, i) ==
    LET tok == st.fu[1]
    IN [st.out EXCEPT ![st.idx] = Put(tok, args[i], Has(tok, "u") /\ Path2Url(args[i]))]

\* The command lines, or none at all on an error.  exec is what follows the
\* command word, which each of them starts with.
gen_entry_args(exec, args, icon) ==
    LET st == FoldLeft(LAMBDA s, tok : Expand(s, tok, args, icon), NothingYet, exec)
    IN IF ~st.ok \/ (args # <<>> /\ st.fu = <<>>) THEN <<>>
       ELSE IF Len(args) > 1 /\ st.idx > 0 /\ st.fu[1].alone
       THEN [i \in DOMAIN args |-> Instance(st, args, i)]
       ELSE <<st.out>>

-----------------------------------------------------------------------------
(* What a launch owes its caller.                                          *)

\* Where argument a appears, over all the command lines.
Delivered(lines, a) ==
    UNION {{<<i, j>> : j \in {j \in DOMAIN lines[i] : lines[i][j].is = "put" /\ lines[i][j].arg = a}}
           : i \in DOMAIN lines}

\* The entry has a field for one argument inside a longer token.
Embedded(exec) ==
    \E i \in DOMAIN exec : /\ ~exec[i].alone /\ ~exec[i].pct
                           /\ Has(exec[i], "f") \/ Has(exec[i], "u")
=============================================================================
