-------------------------------- MODULE Console --------------------------------
(***************************************************************************)
(* The console's own commands: the line that shell.rs collects, repl.rs    *)
(* and cmds.rs dispatch, and what cmds/qr.rs, cmds/debug.rs and the reading*)
(* half of cmds/photo.rs then do, while the vault, another process, keeps  *)
(* the saved QR codes and changes them by itself.                          *)
(*                                                                         *)
(* A line is a sequence of words, a line spoilt in typing is Typo.  Keys   *)
(* wait in a queue of about sixteen (cmds/upload.rs:81-83) while a command *)
(* runs: they are modelled when the shell takes them, and those that found *)
(* it full are lost.  The badge's own controls are ignored and no step.    *)
(* A code is the number the vault's counter gave its key.  The commands    *)
(* that other modules model do nothing here.  Callbacks reach commands     *)
(* that ignore them, and nothing reads the history: both are left out with *)
(* the last verb.  The vault is external.                                  *)
(***************************************************************************)
EXTENDS Naturals, SequencesExt

CONSTANTS Lines,      \* what the terminal sends
          MaxCodes,   \* a bound: codes ever saved
          QUEUE,      \* log levels that wait in the vault's queue
          Faults      \* what may fail

Code == 1 .. MaxCodes
Counter == MaxCodes + 1   \* "__counter__", which sorts after zero-padded hexadecimal

Typo == <<"?">>
Blank == <<>>
Help == <<"help">>
Verbs == {"photo", "qr", "upload", "debug", "bio", "test"}

ASSUME ConsoleAssumption ==
  /\ MaxCodes \in Nat /\ QUEUE \in Nat \ {0}
  /\ Typo \in Lines /\ Blank \notin Lines
  /\ Faults \subseteq {"list",    \* the PDDB cannot list the keys
                       "read",    \* it cannot read a record
                       "death"}   \* the vault dies

VARIABLES
  input,         \* what the shell has collected
  pc,            \* "idle", "run", "read", "connect" or "reply"
  line,          \* the line being run
  answer,        \* what was printed last
  todo, codes,   \* codes(): the keys still to read, and what was read
  log,           \* the console's log level is verbose
  dict,          \* the codes in the vault's dictionary
  next,          \* the vault's counter
  vault,         \* "starting", "up" or "dead"
  vaultLog,      \* the vault's log level is verbose
  levels,        \* the SetLogLevel messages on their way to the vault
  listed,        \* history: what the last `qr list` printed
  disturbed      \* history: a code was deleted or not readable since that list began

reading == <<todo, codes>>
listing == <<listed, disturbed>>
dictionary == <<dict, next>>
vaultVars == <<vault, vaultLog, levels>>
vars == <<input, pc, line, answer, reading, log, dictionary, vaultVars, listing>>

Init ==
  /\ input = Blank /\ pc = "idle" /\ line = Blank /\ answer = <<>>
  /\ todo = <<>> /\ codes = <<>> /\ log = FALSE
  /\ dict = {} /\ next = 1
  /\ vault = "starting" /\ vaultLog = FALSE /\ levels = <<>>
  /\ listed = <<>> /\ disturbed = FALSE
-----------------------------------------------------------------------------
(* The shell                                                                 *)

Then(before, text) == IF before = Blank THEN text ELSE Typo

\* What a terminal sends, or of what it sends too fast a part or nothing.
Type(text) ==
  /\ pc = "idle"
  /\ input' \in {Then(input, text), Typo, input}
  /\ UNCHANGED <<pc, line, answer, reading, log, dictionary, vaultVars, listing>>

Backspace ==
  /\ pc = "idle" /\ input # Blank
  /\ input' \in {Blank, Typo}
  /\ UNCHANGED <<pc, line, answer, reading, log, dictionary, vaultVars, listing>>

\* Carriage return or line feed; where both come, the second is an empty line.
Enter ==
  /\ pc = "idle"
  /\ line' = IF input = Blank THEN Help ELSE input
  /\ input' = Blank
  /\ pc' = "run"
  /\ UNCHANGED <<answer, reading, log, dictionary, vaultVars, listing>>
-----------------------------------------------------------------------------
(* Dispatch                                                                  *)

Is(words) == IsPrefix(words, line)

Answer(words) == answer' = words /\ pc' = "idle" /\ line' = Blank

WantsCodes == Is(<<"qr", "list">>) \/ (Is(<<"qr", "get">>) /\ Len(line) > 2)
WantsVault == Head(line) = "photo" \/ (Is(<<"qr", "add">>) /\ Len(line) > 2)
SetsLog == Is(<<"debug", "log">>) /\ Len(line) > 2

\* Help, a verb nobody knows, and what needs neither codes nor vault.
DispatchHere ==
  /\ pc = "run" /\ ~ WantsCodes /\ ~ WantsVault /\ ~ SetsLog
  /\ Answer(CASE Head(line) \in {"help", "h"} -> <<"help">>
              [] Head(line) = " "             -> answer
              [] Head(line) \in Verbs         -> <<"its own">>
              [] OTHER                        -> <<"commands">>)
  /\ UNCHANGED <<input, reading, log, dictionary, vaultVars, listing>>

\* As a bug would have it: the vault's counter is taken for a code.
KeepCounter(keys) == keys

Retain(keys) == keys \ {Counter}

Keys == dict \union {Counter}

Ascending(keys) == \A i, j \in DOMAIN keys : i < j => keys[i] < keys[j]

\* codes() lists the keys and sorts them.
ListKeys ==
  /\ pc = "run" /\ WantsCodes
  /\ \/ \E keys \in SetToSeqs(Retain(Keys)) : Ascending(keys) /\ todo' = keys
     \/ "list" \in Faults /\ todo' = <<>>
  /\ codes' = <<>>
  /\ pc' = "read"
  /\ IF line[2] = "list" THEN listed' = <<>> /\ disturbed' = FALSE ELSE UNCHANGED listing
  /\ UNCHANGED <<input, line, answer, log, dictionary, vaultVars>>

\* A record that cannot be read, or is no longer there, is passed over.
ReadCode ==
  /\ pc = "read" /\ todo # <<>>
  /\ \/ Head(todo) \in Keys /\ codes' = Append(codes, Head(todo)) /\ UNCHANGED disturbed
     \/ Head(todo) \notin Keys /\ UNCHANGED <<codes, disturbed>>
     \/ "read" \in Faults /\ disturbed' = TRUE /\ UNCHANGED codes
  /\ todo' = Tail(todo)
  /\ UNCHANGED <<input, pc, line, answer, log, dictionary, vaultVars, listed>>

PrintList ==
  /\ pc = "read" /\ todo = <<>> /\ line[2] = "list"
  /\ listed' = codes /\ codes' = <<>>
  /\ Answer(<<"list">>)
  /\ UNCHANGED <<input, todo, log, dictionary, vaultVars, disturbed>>

PrintCode ==
  /\ pc = "read" /\ todo = <<>> /\ line[2] = "get"
  /\ LET n == line[3] + 1
     IN Answer(IF n \in DOMAIN codes THEN <<"code", codes[n]>> ELSE <<"no code">>)
  /\ codes' = <<>>
  /\ UNCHANGED <<input, todo, log, dictionary, vaultVars, listing>>

\* `debug log`: the console's level first, then the vault is asked for.
SetLog ==
  /\ pc = "run" /\ SetsLog
  /\ log' = (line[3] = "on")
  /\ pc' = "connect"
  /\ UNCHANGED <<input, line, answer, reading, dictionary, vaultVars, listing>>

Ask ==
  /\ pc = "run" /\ WantsVault
  /\ pc' = "connect"
  /\ UNCHANGED <<input, line, answer, reading, log, dictionary, vaultVars, listing>>

\* As a bug would have it: the vault hears of verbose logging only.
TellVerbose == levels' = IF log THEN Append(levels, log) ELSE levels

TellLevel == levels' = Append(levels, log)

\* request_connection_blocking returns when the vault has registered.  Only
\* the log level is sent without waiting for an answer.
Connect ==
  /\ pc = "connect" /\ vault # "starting" /\ ~ SetsLog
  /\ pc' = "reply"
  /\ UNCHANGED <<input, line, answer, reading, log, dictionary, vaultVars, listing>>

SendLevel ==
  /\ pc = "connect" /\ vault # "starting" /\ SetsLog
  /\ IF vault = "dead" THEN UNCHANGED levels ELSE Len(levels) < QUEUE /\ TellLevel
  /\ Answer(<<"log">>)
  /\ UNCHANGED <<input, reading, log, dictionary, vault, vaultLog, listing>>

\* As a bug would have it: the shell waits on for an answer.
WaitOn == UNCHANGED <<answer, pc, line>>

GiveUp == Answer(<<"ERR">>)

\* The message is not delivered, or nobody answers it any more.
NoAnswer ==
  /\ pc = "reply" /\ vault = "dead"
  /\ GiveUp
  /\ UNCHANGED <<input, reading, log, dictionary, vaultVars, listing>>

Shell ==
  \/ DispatchHere \/ ListKeys \/ ReadCode \/ PrintList \/ PrintCode
  \/ SetLog \/ Ask \/ Connect \/ SendLevel \/ NoAnswer
-----------------------------------------------------------------------------
(* The vault                                                                 *)

Starts ==
  /\ vault = "starting" /\ vault' = "up"
  /\ UNCHANGED <<input, pc, line, answer, reading, log, dictionary, vaultLog, levels, listing>>

Dies ==
  /\ "death" \in Faults /\ vault = "up" /\ vault' = "dead"
  /\ UNCHANGED <<input, pc, line, answer, reading, log, dictionary, vaultLog, levels, listing>>

\* A photo, or a code that is saved or refused.
Answers ==
  /\ vault = "up" /\ pc = "reply"
  /\ \/ line[1] = "qr" /\ next <= MaxCodes /\ dict' = dict \union {next} /\ next' = next + 1
     \/ UNCHANGED dictionary
  /\ Answer(<<"reply">>)
  /\ UNCHANGED <<input, reading, log, vaultVars, listing>>

TakesLevel ==
  /\ vault = "up" /\ levels # <<>>
  /\ vaultLog' = Head(levels) /\ levels' = Tail(levels)
  /\ UNCHANGED <<input, pc, line, answer, reading, log, dictionary, vault, listing>>

Scans ==
  /\ vault = "up" /\ next <= MaxCodes
  /\ dict' = dict \union {next} /\ next' = next + 1
  /\ UNCHANGED <<input, pc, line, answer, reading, log, vaultVars, listing>>

Deletes ==
  /\ vault = "up"
  /\ \E c \in dict : dict' = dict \ {c}
  /\ disturbed' = TRUE
  /\ UNCHANGED <<input, pc, line, answer, reading, log, next, vaultVars, listed>>

Serves == Answers \/ TakesLevel

Next ==
  \/ \E l \in Lines : Type(l)
  \/ Backspace \/ Enter \/ Shell
  \/ Starts \/ Dies \/ Serves \/ Scans \/ Deletes

Spec == Init /\ [][Next]_vars

\* The shell's thread runs, and a vault that runs serves its messages.  Nobody
\* has to type, and nothing says that the vault ever starts.
FairSpec == Spec /\ WF_vars(Shell) /\ WF_vars(Serves)
-----------------------------------------------------------------------------
TypeOK ==
  /\ input \in Lines \union {Blank}
  /\ pc \in {"idle", "run", "read", "connect", "reply"}
  /\ line \in Lines \union {Blank, Help}
  /\ Len(answer) = 2 => answer[2] \in Code
  /\ \A s \in {todo, codes, listed} : s \in Seq(Code)
  /\ log \in BOOLEAN /\ dict \subseteq Code /\ next \in 1 .. MaxCodes + 1
  /\ vault \in {"starting", "up", "dead"} /\ vaultLog \in BOOLEAN
  /\ levels \in Seq(BOOLEAN) /\ disturbed \in BOOLEAN

\* A number that `qr list` printed still names the same code when `qr get`
\* asks for it, unless a code was deleted or could not be read meanwhile: codes
\* that are saved between the two, or while the keys are read, come after the
\* ones listed, and the vault's counter is never one (qr.rs:44-63, 85-108).
NumbersStayTrue ==
  [][\A n \in DOMAIN listed :
       PrintCode /\ ~ disturbed /\ n = line[3] + 1 /\ answer' # <<"no code">>
         => answer' = <<"code", listed[n]>>]_vars

\* Once the vault has taken its messages, it logs as the console does, in
\* whatever order the two were told (debug.rs:44-80).
LogLevelsAgree == vault = "up" /\ levels = <<>> /\ pc # "connect" => vaultLog = log

\* A line is answered, as long as the vault has started: the vault's death
\* does not take the console with it (debug.rs:99-101).
LinesAreAnswered == (pc # "idle" /\ vault # "starting") ~> pc = "idle"
=============================================================================
