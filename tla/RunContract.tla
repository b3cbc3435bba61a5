----------------------------- MODULE RunContract -----------------------------
(***************************************************************************)
(* What a user may expect of boxcopy copy --perform: nothing on the target *)
(* accounts is touched before the answer YES, nothing is copied before all *)
(* of them are wiped, nothing is wiped any more once copying has begun,    *)
(* and a run that reports success has copied everything, unless it was     *)
(* interrupted or two mailboxes share a name.  Runner implements it.       *)
(***************************************************************************)
EXTENDS Naturals

CONSTANTS Mailbox, Account, TargetOf, Name, NameOf     \* see Runner

VARIABLES
  entries,            \* the mailboxes of the run
  dirty,              \* accounts with messages from before the run
  delivered,          \* what the run has put on the target for each mailbox
  interrupted,        \* a signal has come
  stage,
  result              \* the value returned

vars == <<entries, dirty, delivered, interrupted, stage, result>>

Nothing == [mb \in Mailbox |-> "nothing"]

NoRun ==
  /\ entries = {} /\ dirty = Account /\ delivered = Nothing
  /\ interrupted = FALSE /\ stage = "none" /\ result = "none"

Targets == {TargetOf[mb] : mb \in entries}
Unique == {mb \in entries : \A other \in entries \ {mb} : NameOf[other] # NameOf[mb]}

\* What success claims.
Accomplished ==
  /\ stage = "copying"
  /\ interrupted \/ \A mb \in Unique : delivered[mb] = "all"

-----------------------------------------------------------------------------
Ask ==
  /\ stage = "none"
  /\ stage' = "asking" /\ entries' \in SUBSET Mailbox
  /\ UNCHANGED <<dirty, delivered, interrupted, result>>

Answer ==
  /\ stage = "asking"
  /\ \/ stage' = "wiping" /\ UNCHANGED result
     \/ stage' = "ended" /\ result' = "err"
  /\ UNCHANGED <<entries, dirty, delivered, interrupted>>

Wipe ==
  /\ stage = "wiping"
  /\ \E a \in Targets : dirty' = dirty \ {a}
  /\ UNCHANGED <<entries, delivered, interrupted, stage, result>>

StartCopying ==
  /\ stage = "wiping" /\ dirty \cap Targets = {}
  /\ stage' = "copying"
  /\ UNCHANGED <<entries, dirty, delivered, interrupted, result>>

Deliver ==
  /\ stage = "copying"
  /\ \E mb \in entries :
       \/ delivered[mb] = "nothing" /\ delivered' = [delivered EXCEPT ![mb] = "some"]
       \/ delivered' = [delivered EXCEPT ![mb] = "all"]
  /\ UNCHANGED <<entries, dirty, interrupted, stage, result>>

Interrupt ==
  /\ stage \in {"wiping", "copying"}
  /\ interrupted' = TRUE
  /\ UNCHANGED <<entries, dirty, delivered, stage, result>>

End ==
  /\ stage \in {"wiping", "copying"}
  /\ stage' = "ended"
  /\ result' = "err" \/ (Accomplished /\ result' = "ok")
  /\ UNCHANGED <<entries, dirty, delivered, interrupted>>

\* The end of the process, at any time; whatever is there is old for the next run.
Forget ==
  /\ entries' = {} /\ dirty' = Account /\ delivered' = Nothing
  /\ interrupted' = FALSE /\ stage' = "none" /\ result' = "none"

Next ==
  Ask \/ Answer \/ Wipe \/ StartCopying \/ Deliver \/ Interrupt \/ End \/ Forget

Spec == NoRun /\ [][Next]_vars
=============================================================================
