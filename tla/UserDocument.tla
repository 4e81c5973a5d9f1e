---------------------------- MODULE UserDocument ----------------------------
(***************************************************************************)
(* What the roaming configuration promises a client that writes a user's   *)
(* document: a write takes effect at most once, as a whole, and only on    *)
(* the version it was made from; a write that is reported as done took     *)
(* effect; one that is reported as a conflict was made from a version that *)
(* is no longer there. A write reported as failed, and one reported as a   *)
(* conflict, may have taken effect, and may still do so later.             *)
(***************************************************************************)
EXTENDS Integers

CONSTANTS Writes, None

VARIABLES
  doc,      \* the write the document is from, None for what was there at first
  version,  \* the version of the document, 0 when there is none
  done,     \* the writes that took effect
  write     \* what each writer has asked for and been told

vars == <<doc, version, done, write>>

Init ==
  /\ doc = None /\ version \in {0, 1} /\ done = {}
  /\ write = [w \in Writes |-> [asked |-> FALSE, from |-> 0, told |-> "nothing"]]

\* A writer asks for its write on the version it has read.
Ask(w) ==
  /\ ~write[w].asked
  /\ \E v \in 0 .. version : write' = [write EXCEPT ![w].asked = TRUE, ![w].from = v]
  /\ UNCHANGED <<doc, version, done>>

TakeEffect(w) ==
  /\ write[w].asked /\ w \notin done /\ write[w].from = version
  /\ doc' = w /\ version' = version + 1 /\ done' = done \cup {w}
  /\ UNCHANGED write

Tell(w) ==
  /\ write[w].asked /\ write[w].told = "nothing"
  /\ \E told \in {"Ok", "Conflict", "Failed"} :
       /\ told = "Ok" => w \in done
       /\ told = "Conflict" => version > write[w].from
       /\ write' = [write EXCEPT ![w].told = told]
  /\ UNCHANGED <<doc, version, done>>

Next == \E w \in Writes : Ask(w) \/ TakeEffect(w) \/ Tell(w)
Spec == Init /\ [][Next]_vars
=============================================================================
