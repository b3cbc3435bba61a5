------------------------------- MODULE Boxcopy -------------------------------
(***************************************************************************)
(* The whole program: Startup up to the call of performCopy, and Runner    *)
(* from there to the end of the process, one process after another.  The   *)
(* mailboxes of a run are those of the configuration that Startup loaded.  *)
(***************************************************************************)
EXTENDS Runner

CONSTANTS Key, NoKey, Typed                                     \* see Startup

VARIABLES mode, text, printed, phase, command, key, cfg         \* see Startup

Start == INSTANCE Startup

ASSUME BoxcopyAssumption == Start!StartupAssumption

startup == <<mode, text, printed, phase, command, key, cfg>>

box_vars == <<vars, startup>>

BoxInit == Init /\ Start!Init

\* Run hands the configuration over to performCopy.
CallPerformCopy == Start!Perform /\ Begin(DOMAIN cfg.mailboxes)

BeforeCopy == (Start!Command \/ Start!User) /\ UNCHANGED vars

Copying == Running /\ UNCHANGED startup

ProcessEnds == Start!Gone /\ (IF pc = "shell" THEN UNCHANGED vars ELSE ProcessGone)

BoxNext == BeforeCopy \/ CallPerformCopy \/ Copying \/ ProcessEnds

BoxSpec == BoxInit /\ [][BoxNext]_box_vars

\* performCopy runs on once confirmed and its waits time out; the workers need not
\* get anywhere, and the user need not answer.
FairBoxSpec == BoxSpec /\ WF_box_vars(Main /\ UNCHANGED startup)

-----------------------------------------------------------------------------
(* Properties *)

\* Both parts have their types, and performCopy runs just when it has been called,
\* with the mailboxes of the configuration.
BoxTypeOK ==
  /\ TypeOK /\ Start!TypeOK
  /\ pc # "shell" <=> phase = "performing"
  /\ pc # "shell" => entries = DOMAIN cfg.mailboxes

\* "All passwords in config must be encrypted" (main.go:97), and config.Validate: a
\* command that may reach a server has hosts, limits of at least 1, a mailbox, and
\* only passwords that encrypt-password has printed under the key it was given.
WorkIsSound == Start!WorkIsSound
=============================================================================
