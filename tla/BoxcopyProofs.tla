---------------------------- MODULE BoxcopyProofs ----------------------------
(***************************************************************************)
(* Theorems about the whole program, for any mailboxes, keys and texts     *)
(* that users may type.                                                    *)
(***************************************************************************)
EXTENDS Boxcopy, RunnerProofs

-----------------------------------------------------------------------------
(* The invariant of Startup *)

\* Only keys that encrypt-password has used are in the file.
Printed == \A e \in Start!Entries(text) : {e.source, e.target} \cap Key \subseteq printed

StartTypes ==
  /\ text \in Start!Text /\ printed \subseteq Key
  /\ cfg \in Start!Text
  /\ mode \in {"absent", "private", "open"}
  /\ phase \in {"shell", "init", "force", "create", "write", "load", "work",
                "performing", "return"} \cup Start!NeedsKey
  /\ command \in {"none", "init", "force"} \cup Start!NeedsKey
  /\ key \in Key \cup {NoKey}

\* The configuration is read late, and a command that reads it has a key.
Order ==
  /\ phase \notin {"work", "performing", "return"} => cfg = Start!Empty
  /\ phase \in Start!NeedsKey \cup {"load", "work", "performing"} => key \in Key

SInv == StartTypes /\ Order /\ Printed /\ WorkIsSound

-----------------------------------------------------------------------------
(* Texts of the file *)

\* The empty text and the template are texts, without any password of a key.
LEMMA EmptyText == Start!Empty \in Start!Text /\ Start!Entries(Start!Empty) = {}
<1>1. Start!Empty.mailboxes \in [{} -> Start!Entry]
  BY DEF Start!Empty
<1>2. Start!Empty.mailboxes \in UNION {[mbs -> Start!Entry] : mbs \in SUBSET Mailbox}
  BY <1>1
<1> QED
  BY <1>2 DEF Start!Empty, Start!Text, Start!LogLevel, Start!Number, Start!Field, Start!Entries

\* The template is a text, without any password of a key, even when it is cut.
LEMMA TemplateText ==
  ASSUME NEW mb \in Mailbox,
         NEW t \in {Start!Template(mb), [Start!Template(mb) EXCEPT !.parses = FALSE]}
  PROVE  /\ t \in Start!Text
         /\ \A e \in Start!Entries(t) : e.source = "text" /\ e.target = "text"
<1> DEFINE entry == [login |-> "given", source |-> "text", target |-> "text"]
<1>1. entry \in Start!Entry
  BY DEF Start!Entry, Start!Field, Start!Password
<1>2. t.mailboxes = [one \in {mb} |-> entry]
  BY DEF Start!Template
<1>3. t.mailboxes \in [{mb} -> Start!Entry]
  BY <1>1, <1>2
<1>4. t.mailboxes \in UNION {[mbs -> Start!Entry] : mbs \in SUBSET Mailbox}
  BY <1>3
<1> DEFINE mbs == [one \in {mb} |-> entry]
<1>5. t \in Start!Text
  <2>1. mbs \in UNION {[some -> Start!Entry] : some \in SUBSET Mailbox}
    BY <1>2, <1>4
  <2>2. Start!Template(mb) =
          [parses |-> TRUE, level |-> "fine", rate |-> "fine", connections |-> "fine",
           sourceHost |-> "given", targetHost |-> "given", mailboxes |-> mbs]
    BY DEF Start!Template
  <2> HIDE DEF mbs
  <2>3. Start!Template(mb) \in Start!Text
    BY <2>1, <2>2 DEF Start!Text, Start!LogLevel, Start!Number, Start!Field
  <2> QED
    BY <2>3 DEF Start!Text
<1>6. \A e \in Start!Entries(t) : e = entry
  BY <1>2 DEF Start!Entries
<1> QED
  BY <1>5, <1>6

\* What Load accepts is as WorkIsSound says.
LEMMA LoadedIsSound ==
  ASSUME NEW t \in Start!Text, NEW k \in Key,
         Start!Loads(t), Start!Valid(Start!Config(t)), Start!Opens(Start!Config(t), k)
  PROVE  LET c == Start!Config(t) IN
         /\ c \in Start!Text /\ c.mailboxes = t.mailboxes
         /\ c.sourceHost = "given" /\ c.targetHost = "given"
         /\ c.rate = "fine" /\ c.connections = "fine" /\ c.level = "fine"
         /\ Start!Entries(c) # {}
         /\ \A e \in Start!Entries(c) : e = [login |-> "given", source |-> k, target |-> k]
<1> DEFINE c == Start!Config(t)
<1>1. c \in Start!Text
  BY DEF Start!Config, Start!Default, Start!Text, Start!LogLevel, Start!Number
<1>2. /\ c.mailboxes = t.mailboxes
      /\ c.sourceHost = t.sourceHost /\ c.targetHost = t.targetHost
      /\ c.rate # "missing" /\ c.connections # "missing" /\ c.level # "missing"
  BY DEF Start!Config, Start!Default, Start!Text
<1>3. Start!Entries(c) = Start!Entries(t)
  BY <1>2 DEF Start!Entries
<1> HIDE DEF c
<1>4. /\ c.sourceHost = "given" /\ c.targetHost = "given"
      /\ c.rate = "fine" /\ c.connections = "fine" /\ c.level = "fine"
  BY <1>1, <1>2 DEF Start!Text, Start!LogLevel, Start!Number, Start!Field, Start!Loads,
                    Start!LoadsServer, Start!Valid, c
<1>5. \A e \in Start!Entries(t) : e \in Start!Entry
  BY DEF Start!Entries, Start!Text
<1>6. \A e \in Start!Entries(t) : e.login = "given"
  BY <1>3, <1>5 DEF c, Start!Entry, Start!Field, Start!Loads, Start!LoadsMailboxes, Start!Valid
<1>7. \A e \in Start!Entries(t) : e.source = k /\ e.target = k
  BY <1>3 DEF c, Start!Opens, Start!Decrypts
<1>8. \A e \in Start!Entries(t) : e = [login |-> "given", source |-> k, target |-> k]
  BY <1>5, <1>6, <1>7 DEF Start!Entry
<1>9. Start!Entries(t) # {}
  <2>1. PICK mbs \in SUBSET Mailbox : t.mailboxes \in [mbs -> Start!Entry]
    BY DEF Start!Text
  <2>2. Start!Empty.mailboxes = [mb \in {} |-> "none"]
    BY DEF Start!Empty
  <2>3. mbs # {}
    BY <2>1, <2>2 DEF Start!Loads, Start!LoadsMailboxes
  <2> QED
    BY <2>1, <2>3 DEF Start!Entries
<1> QED
  BY <1>1, <1>2, <1>3, <1>4, <1>8, <1>9 DEF c

-----------------------------------------------------------------------------
(* The invariant holds *)

LEMMA StartInit == Start!Init => SInv
  BY EmptyText
  DEF Start!Init, Start!NoCommand, SInv, StartTypes, Order, Printed, WorkIsSound,
      Start!WorkIsSound, Start!NeedsKey

\* The steps of a command keep it: what is read has passed Load's checks.
LEMMA CommandKeeps == ASSUME SInv, Start!Command PROVE SInv'
<1> USE DEF SInv, StartTypes, Order, Printed, WorkIsSound, Start!WorkIsSound, Start!NeedsKey,
            Start!disk, Start!call
<1>1. CASE Start!FindNoFile
  BY <1>1 DEF Start!FindNoFile
<1>2. CASE Start!CreateFile
  BY <1>2, EmptyText DEF Start!CreateFile
<1>3. CASE Start!WriteTemplate
  <2>1. PICK mb \in Mailbox : text' \in {Start!Template(mb), [Start!Template(mb) EXCEPT !.parses = FALSE]}
    BY <1>3 DEF Start!WriteTemplate
  <2>2. text' \in Start!Text
    BY <2>1, TemplateText
  <2>3. Printed'
    BY <2>1, TemplateText, BoxcopyAssumption DEF Start!StartupAssumption
  <2> QED
    BY <1>3, <2>2, <2>3 DEF Start!WriteTemplate
<1>4. CASE Start!EncryptPassword
  BY <1>4 DEF Start!EncryptPassword
<1>5. CASE Start!CheckFilePermissions
  BY <1>5 DEF Start!CheckFilePermissions
<1>6. CASE Start!Load
  <2>1. /\ phase = "load" /\ phase' = "work" /\ cfg' = Start!Config(text)
        /\ UNCHANGED <<mode, text, printed, command, key>>
        /\ Start!Loads(text) /\ Start!Valid(Start!Config(text))
        /\ Start!Opens(Start!Config(text), key)
    BY <1>6 DEF Start!Load
  <2>2. key \in Key /\ text \in Start!Text
    BY <2>1
  <2>3. /\ cfg' \in Start!Text /\ cfg'.mailboxes = text.mailboxes
        /\ cfg'.sourceHost = "given" /\ cfg'.targetHost = "given"
        /\ cfg'.rate = "fine" /\ cfg'.connections = "fine" /\ cfg'.level = "fine"
        /\ Start!Entries(cfg') # {}
        /\ \A e \in Start!Entries(cfg') : e = [login |-> "given", source |-> key, target |-> key]
    BY <2>1, <2>2, LoadedIsSound
  <2>4. Start!Entries(cfg') = Start!Entries(text)
    BY <2>3 DEF Start!Entries
  <2>5. key \in printed
    BY <2>2, <2>3, <2>4
  <2> QED
    BY <2>1, <2>2, <2>3, <2>5
<1>7. CASE Start!DryRun
  BY <1>7 DEF Start!DryRun
<1>8. CASE Start!Verify
  BY <1>8 DEF Start!Verify
<1> QED
  BY <1>1, <1>2, <1>3, <1>4, <1>5, <1>6, <1>7, <1>8 DEF Start!Command

\* An edit of the file, or a call of a command, keeps it: no command works on either.
LEMMA UserKeeps == ASSUME SInv, Start!User PROVE SInv'
<1> USE DEF SInv, StartTypes, Order, Printed, WorkIsSound, Start!WorkIsSound, Start!NeedsKey,
            Start!disk, Start!call, Start!FileMatters
<1>1. ASSUME NEW c \in {"init", "force"} \cup Start!NeedsKey, NEW k \in Key \cup {NoKey},
             Start!Call(c, k)
      PROVE  SInv'
  BY <1>1 DEF Start!Call
<1>2. CASE Start!Edit
  BY <1>2, BoxcopyAssumption DEF Start!Edit, Start!StartupAssumption
<1>3. CASE Start!Chmod
  BY <1>3 DEF Start!Chmod
<1>4. CASE Start!Remove
  BY <1>4, EmptyText DEF Start!Remove
<1> QED
  BY <1>1, <1>2, <1>3, <1>4 DEF Start!User

\* The call of performCopy and the end of the process keep it.
LEMMA OtherKeep == ASSUME SInv, Start!Perform \/ Start!Gone \/ UNCHANGED startup PROVE SInv'
<1> USE DEF SInv, StartTypes, Order, Printed, WorkIsSound, Start!WorkIsSound, Start!NeedsKey,
            Start!disk, Start!call
<1>1. CASE Start!Perform
  BY <1>1 DEF Start!Perform
<1>2. CASE Start!Gone
  BY <1>2, EmptyText DEF Start!Gone
<1>3. CASE UNCHANGED startup
  BY <1>3 DEF startup
<1> QED
  BY <1>1, <1>2, <1>3

-----------------------------------------------------------------------------
(* The program is a Runner with one configuration after another *)

\* Each step is one of Runner, with the mailboxes that are configured, or none of it.
LEMMA StepOfRunner == ASSUME SInv, [BoxNext]_box_vars PROVE [Next]_vars
<1>1. CASE CallPerformCopy
  <2>1. phase = "work" /\ Begin(DOMAIN cfg.mailboxes)
    BY <1>1 DEF CallPerformCopy, Start!Perform
  <2>2. PICK mbs \in SUBSET Mailbox : cfg.mailboxes \in [mbs -> Start!Entry]
    BY DEF SInv, StartTypes, Start!Text
  <2>3. mbs # {}
    <3>1. Start!Entries(cfg) # {}
      BY <2>1 DEF SInv, WorkIsSound, Start!WorkIsSound
    <3> QED
      BY <2>2, <3>1 DEF Start!Entries
  <2>4. DOMAIN cfg.mailboxes \in (SUBSET Mailbox) \ {{}}
    BY <2>2, <2>3
  <2>5. \E configured \in (SUBSET Mailbox) \ {{}} : Begin(configured)
    BY <2>1, <2>4 DEF Begin
  <2> QED
    BY <2>5 DEF Next
<1>2. CASE BeforeCopy \/ Copying \/ ProcessEnds \/ UNCHANGED box_vars
  BY <1>2 DEF BeforeCopy, Copying, ProcessEnds, box_vars, Next
<1> QED
  BY <1>1, <1>2 DEF BoxNext

\* So does every step of the program.
LEMMA StepOfStartup == ASSUME SInv, [BoxNext]_box_vars PROVE SInv'
<1>1. Start!Command \/ Start!User \/ Start!Perform \/ Start!Gone \/ UNCHANGED startup
  BY DEF BoxNext, BeforeCopy, CallPerformCopy, Copying, ProcessEnds, box_vars
<1> QED
  BY <1>1, CommandKeeps, UserKeeps, OtherKeep

\* A command works only with a sound configuration.
THEOREM WorksSoundly == BoxSpec => []WorkIsSound
<1>1. BoxInit => SInv
  BY StartInit DEF BoxInit
<1>2. SInv /\ [BoxNext]_box_vars => SInv'
  BY StepOfStartup
<1>3. SInv => WorkIsSound
  BY DEF SInv
<1> QED
  BY <1>1, <1>2, <1>3, PTL DEF BoxSpec

\* Whatever is proved of Runner holds of the program.
THEOREM BoxcopyIsRunner == BoxSpec => Spec
<1>1. BoxInit => SInv /\ Init
  BY StartInit DEF BoxInit
<1>2. SInv /\ [BoxNext]_box_vars => SInv' /\ [Next]_vars
  BY StepOfStartup, StepOfRunner
<1> QED
  BY <1>1, <1>2, PTL DEF BoxSpec, Spec

-----------------------------------------------------------------------------
(* Both parts together *)

\* performCopy runs just when it has been called, for the configured mailboxes.
Linked ==
  /\ pc # "shell" <=> phase = "performing"
  /\ pc # "shell" => entries = DOMAIN cfg.mailboxes

\* Before any command nothing runs.
LEMMA InitLinked == BoxInit => SInv /\ Linked
  BY StartInit DEF BoxInit, Init, NoProcess, Start!Init, Start!NoCommand, Linked

\* performCopy neither starts nor forgets itself.
LEMMA RunningStays ==
  ASSUME IInv, Running
  PROVE  pc # "shell" /\ pc' # "shell" /\ entries' = entries
<1> USE DEF IInv, Types, Control
<1>1. CASE Confirm
  BY <1>1 DEF Confirm, Return, Go
<1>2. CASE EnqueueClean \/ CleanTargets \/ CleanTimesOut \/ StopCleaning \/ LoadState
  BY <1>2 DEF EnqueueClean, CleanTargets, CleanTimesOut, StopCleaning, LoadState, Return, Go
<1>3. CASE SaveCleared \/ EnqueueCopy \/ WaitForCopies \/ CopyTimesOut \/ SaveState \/ StopPool
  BY <1>3 DEF SaveCleared, EnqueueCopy, WaitForCopies, CopyTimesOut, SaveState, StopPool,
              Return, Go
<1>4. ASSUME NEW mb \in entries, Worker(mb)
      PROVE  pc # "shell" /\ pc' = pc /\ entries' = entries
  <2>1. clean[mb] # "none" \/ copy[mb] # "none"
    BY <1>4 DEF Worker, StartClean, FinishClean, StartCopy, CopyMessage, FinishCopy, StartJob
  <2>2. pc # "shell"
    BY <2>1 DEF Started
  <2> QED
    BY <1>4, <2>2 DEF Worker, StartClean, FinishClean, StartCopy, CopyMessage, FinishCopy
<1>5. CASE Signal
  BY <1>5 DEF Signal
<1> QED
  BY <1>1, <1>2, <1>3, <1>4, <1>5 DEF Running, Main

\* Every step keeps the tie between the command and performCopy.
LEMMA NextLinked ==
  ASSUME IInv, SInv, Linked, [BoxNext]_box_vars
  PROVE  Linked'
<1> USE DEF Linked, SInv, StartTypes, Start!NeedsKey, Start!call, Start!disk
<1>1. CASE Start!Command /\ UNCHANGED vars
  <2>1. phase # "performing" /\ phase' # "performing"
    BY <1>1 DEF Start!Command, Start!FindNoFile, Start!CreateFile, Start!WriteTemplate,
      Start!EncryptPassword, Start!CheckFilePermissions, Start!Load, Start!DryRun, Start!Verify
  <2> QED
    BY <1>1, <2>1 DEF vars
<1>2. CASE Start!User /\ UNCHANGED vars
  <2>1. phase # "performing" /\ phase' # "performing"
    BY <1>2 DEF Start!User, Start!Call, Start!Edit, Start!Chmod, Start!Remove, Start!FileMatters
  <2> QED
    BY <1>2, <2>1 DEF vars
<1>3. CASE CallPerformCopy
  BY <1>3 DEF CallPerformCopy, Start!Perform, Begin
<1>4. CASE Copying
  BY <1>4, RunningStays DEF Copying, startup
<1>5. CASE ProcessEnds
  BY <1>5 DEF ProcessEnds, Start!Gone, ProcessGone, vars
<1>6. CASE UNCHANGED box_vars
  BY <1>6 DEF box_vars, vars, startup
<1> QED
  BY <1>1, <1>2, <1>3, <1>4, <1>5, <1>6 DEF BoxNext, BeforeCopy

\* An empty configuration is not a sound one.
LEMMA TypesOfStartup == SInv => Start!TypeOK
<1>1. SInv /\ phase \in {"work", "performing"} => cfg # Start!Empty
  BY DEF SInv, WorkIsSound, Start!WorkIsSound, Start!Empty
<1> QED
  BY <1>1 DEF SInv, StartTypes, Order, Start!TypeOK, Start!NeedsKey

\* Both parts keep their types, and performCopy has the configured mailboxes.
THEOREM BoxTypeCorrect == BoxSpec => []BoxTypeOK
<1>1. BoxInit => SInv /\ Linked
  BY InitLinked
<1>2. IInv /\ SInv /\ Linked /\ [BoxNext]_box_vars => SInv' /\ Linked'
  BY StepOfStartup, NextLinked
<1>3. TypeOK /\ SInv /\ Linked => BoxTypeOK
  BY TypesOfStartup DEF Linked, BoxTypeOK
<1> QED
  BY <1>1, <1>2, <1>3, BoxcopyIsRunner, Invariant, TypeCorrect, PTL DEF BoxSpec

-----------------------------------------------------------------------------
(* What Runner promises, of the program *)

\* A copy finds the targets of all mailboxes clean.
THEOREM BoxCopiesFindClean == BoxSpec => []CopiesOnlyToClean
  BY BoxcopyIsRunner, CopiesFindClean, PTL

\* No copy sees marks of an earlier run.
THEOREM BoxCopiesFindNoMarks == BoxSpec => []NoOldMarks
  BY BoxcopyIsRunner, CopiesFindNoMarks, PTL

\* A run that reports success has copied everything and saved its state.
THEOREM BoxSuccessIsHonest == BoxSpec => []SuccessMeansCopied
  BY BoxcopyIsRunner, SuccessIsHonest, PTL

\* Every run keeps RunContract.
THEOREM BoxImplementsContract == BoxSpec => ContractKept
  BY BoxcopyIsRunner, RunImplementsContract, PTL
=============================================================================
