------------------------------- MODULE Startup -------------------------------
(***************************************************************************)
(* The commands of boxcopy and its configuration file (cmd/boxcopy,        *)
(* internal/config, and the beginnings of runner.Run and verifier.Verify). *)
(* A user writes a template with init, encrypts passwords, edits the file, *)
(* and starts a dry run, a copy or a verification.  Users edit the file,   *)
(* change its mode and remove it between any two system calls of a         *)
(* command, and commands are killed half-way.                              *)
(*                                                                         *)
(* A text of the file stands for what can be told of it: which fields are  *)
(* missing (or of a wrong type, which the getters report alike), empty or  *)
(* out of range, and under which key each password has been encrypted.     *)
(***************************************************************************)
EXTENDS Naturals

CONSTANTS
  Mailbox,            \* the [[mailbox]] entries there may be
  Key,                \* encryption keys
  NoKey,              \* no -k, or an empty one
  Typed               \* texts users may give the file

Field    == {"missing", "empty", "given"}
Number   == {"missing", "low", "fine"}
LogLevel == {"missing", "bad", "fine"}

\* A password that EncryptPassword has made is its key; others are "text".
Password == {"missing", "empty", "text"} \cup Key

\* login stands for name, source_user and target_user.
Entry == [login : Field, source : Password, target : Password]

Text == [parses : BOOLEAN, level : LogLevel, rate : Number, connections : Number,
         sourceHost : Field, targetHost : Field,
         mailboxes : UNION {[mbs -> Entry] : mbs \in SUBSET Mailbox}]

StartupAssumption ==
  Typed \subseteq Text /\ NoKey \notin Key /\ {"missing", "empty", "text"} \cap Key = {}

VARIABLES
  mode,               \* of the file: "absent", 0600 ("private") or "open"
  text,               \* its contents
  printed,            \* keys under which encrypt-password has printed a password
  \* the process
  phase,              \* "shell" if there is none
  command,
  key,                \* the value of -k
  cfg                 \* the Config, or the empty text

disk == <<mode, text>>
call == <<command, key>>

vars == <<disk, printed, phase, call, cfg>>

Empty ==
  [parses |-> TRUE, level |-> "missing", rate |-> "missing", connections |-> "missing",
   sourceHost |-> "missing", targetHost |-> "missing", mailboxes |-> [mb \in {} |-> "none"]]

\* configTemplate, with one entry and PASTE_ENCRYPTED_PASSWORD_HERE.
Template(mb) ==
  [parses |-> TRUE, level |-> "fine", rate |-> "fine", connections |-> "fine",
   sourceHost |-> "given", targetHost |-> "given",
   mailboxes |-> [one \in {mb} |-> [login |-> "given", source |-> "text", target |-> "text"]]]

-----------------------------------------------------------------------------
(* package config *)

Entries(t) == {t.mailboxes[mb] : mb \in DOMAIN t.mailboxes}

LoadsServer(host) == host # "missing"

LoadsMailboxes(t) ==
  t.mailboxes # Empty.mailboxes /\ \A e \in Entries(t) : "missing" \notin {e.login, e.source, e.target}

\* loadFromDocument fails on a missing mandatory field or without an entry.
Loads(t) ==
  t.parses /\ LoadsServer(t.sourceHost) /\ LoadsServer(t.targetHost) /\ LoadsMailboxes(t)

Default(value) == IF value = "missing" THEN "fine" ELSE value

Config(t) ==
  [t EXCEPT !.level = Default(t.level), !.rate = Default(t.rate),
            !.connections = Default(t.connections)]

\* Variant with a bug: empty passwords and limits are not looked at.
ValidShort(c) ==
  /\ c.sourceHost # "empty" /\ c.targetHost # "empty" /\ c.level # "bad"
  /\ \A e \in Entries(c) : e.login # "empty"

Valid(c) ==
  /\ c.sourceHost # "empty" /\ c.targetHost # "empty"
  /\ c.rate # "low" /\ c.connections # "low" /\ c.level # "bad"
  /\ \A e \in Entries(c) : "empty" \notin {e.login, e.source, e.target}

\* AES-GCM opens what was sealed under the same key, and nothing else.
Decrypts(password, k) == password = k

\* Variant with a bug: the passwords of the target are not decrypted.
OpensSourceOnly(c, k) == \A e \in Entries(c) : Decrypts(e.source, k)

\* DecryptMailboxPasswords
Opens(c, k) == \A e \in Entries(c) : Decrypts(e.source, k) /\ Decrypts(e.target, k)

-----------------------------------------------------------------------------
NoCommand == phase = "shell" /\ command = "none" /\ key = NoKey /\ cfg = Empty

Init ==
  /\ mode = "absent" /\ text = Empty /\ printed = {}
  /\ NoCommand

\* The end of the process, after a return, after any error, or by a signal.
Gone ==
  /\ phase # "shell"
  /\ phase' = "shell" /\ command' = "none" /\ key' = NoKey /\ cfg' = Empty
  /\ UNCHANGED <<disk, printed>>

\* main chooses the command; copy stands for the dry run, perform for --perform.
NeedsKey == {"encrypt", "copy", "perform", "verify"}

Call(c, k) ==
  /\ phase = "shell"
  /\ IF c \in NeedsKey THEN k # NoKey ELSE k = NoKey
  /\ phase' = c /\ command' = c /\ key' = k
  /\ UNCHANGED <<disk, printed, cfg>>

-----------------------------------------------------------------------------
(* boxcopy init, and init -f ("force") *)

\* Only -f goes on if there is a file.
FindNoFile ==
  /\ phase = "force" \/ (phase = "init" /\ mode = "absent")
  /\ phase' = "create"
  /\ UNCHANGED <<disk, printed, call, cfg>>

\* os.WriteFile truncates the file, and gives a new one the mode 0600.
CreateFile ==
  /\ phase = "create"
  /\ text' = Empty
  /\ mode' = IF mode = "absent" THEN "private" ELSE mode
  /\ phase' = "write"
  /\ UNCHANGED <<printed, call, cfg>>

\* All of the template is written, or a part that ends anywhere.
WriteTemplate ==
  /\ phase = "write"
  /\ \E mb \in Mailbox : text' \in {Template(mb), [Template(mb) EXCEPT !.parses = FALSE]}
  /\ phase' = "return"
  /\ UNCHANGED <<mode, printed, call, cfg>>

-----------------------------------------------------------------------------
(* boxcopy encrypt-password *)

EncryptPassword ==
  /\ phase = "encrypt"
  /\ printed' = printed \cup {key}
  /\ phase' = "return"
  /\ UNCHANGED <<disk, call, cfg>>

-----------------------------------------------------------------------------
(* boxcopy copy and verify, up to the first connection *)

CheckFilePermissions ==
  /\ phase \in {"copy", "perform", "verify"} /\ mode = "private"
  /\ phase' = "load"
  /\ UNCHANGED <<disk, printed, call, cfg>>

\* The rest of Load, Validate and DecryptMailboxPasswords; any error ends the command.
Load ==
  /\ phase = "load" /\ mode # "absent"
  /\ Loads(text) /\ Valid(Config(text)) /\ Opens(Config(text), key)
  /\ cfg' = Config(text) /\ phase' = "work"
  /\ UNCHANGED <<disk, printed, call>>

\* It prints the configuration.
DryRun ==
  /\ phase = "work" /\ command = "copy"
  /\ phase' = "return"
  /\ UNCHANGED <<disk, printed, call, cfg>>

\* It only reads what the servers hold, see Verifier.
Verify ==
  /\ phase = "work" /\ command = "verify"
  /\ phase' = "return"
  /\ UNCHANGED <<disk, printed, call, cfg>>

\* performCopy is called.
Perform ==
  /\ phase = "work" /\ command = "perform"
  /\ phase' = "performing"
  /\ UNCHANGED <<disk, printed, call, cfg>>

-----------------------------------------------------------------------------
(* users *)

\* A configuration in memory is no longer touched by what happens to the file.
FileMatters == phase \notin {"work", "performing", "return"}

\* Nobody can make an encrypted password but with encrypt-password.
Edit ==
  /\ FileMatters
  /\ \E t \in Typed :
       /\ \A e \in Entries(t) : {e.source, e.target} \cap Key \subseteq printed
       /\ text' = t
  /\ IF mode = "absent" THEN mode' \in {"private", "open"} ELSE UNCHANGED mode
  /\ UNCHANGED <<printed, phase, call, cfg>>

Chmod ==
  /\ FileMatters /\ mode # "absent"
  /\ mode' \in {"private", "open"}
  /\ UNCHANGED <<text, printed, phase, call, cfg>>

Remove ==
  /\ FileMatters
  /\ mode' = "absent" /\ text' = Empty
  /\ UNCHANGED <<printed, phase, call, cfg>>

-----------------------------------------------------------------------------
Command ==
  \/ FindNoFile \/ CreateFile \/ WriteTemplate \/ EncryptPassword
  \/ CheckFilePermissions \/ Load \/ DryRun \/ Verify

User ==
  \/ \E c \in {"init", "force"} \cup NeedsKey, k \in Key \cup {NoKey} : Call(c, k)
  \/ Edit \/ Chmod \/ Remove

Next == Command \/ Perform \/ User \/ Gone

Spec == Init /\ [][Next]_vars

-----------------------------------------------------------------------------
(* Properties *)

\* Every variable has its type, and a configuration is there exactly while a
\* command works with it.
TypeOK ==
  /\ mode \in {"absent", "private", "open"} /\ printed \subseteq Key
  /\ phase \in {"shell", "init", "force", "create", "write", "load", "work",
                "performing", "return"} \cup NeedsKey
  /\ command \in {"none", "init", "force"} \cup NeedsKey
  /\ key \in Key \cup {NoKey}
  /\ phase \in {"work", "performing"} => cfg # Empty
  /\ phase \in {"shell", "load"} => cfg = Empty

\* "All passwords in config must be encrypted" (main.go:97), and config.Validate: a
\* command that may reach a server has hosts, limits of at least 1, a mailbox, and
\* only passwords that encrypt-password has printed under the key it was given.
WorkIsSound ==
  phase \in {"work", "performing"} =>
    /\ key \in printed
    /\ cfg.sourceHost = "given" /\ cfg.targetHost = "given"
    /\ cfg.rate = "fine" /\ cfg.connections = "fine" /\ cfg.level = "fine"
    /\ Entries(cfg) # {}
    /\ \A e \in Entries(cfg) : e = [login |-> "given", source |-> key, target |-> key]
=============================================================================
