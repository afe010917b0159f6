------------------------------- MODULE Checks -------------------------------
(***************************************************************************)
(* The configuration of the plugin: Config::parse over the plugin's        *)
(* arguments, and Checks::parse over the comma-separated list of one       *)
(* "checks=" argument.                                                     *)
(*                                                                         *)
(* The text of an argument list is abstracted to the entries the parser    *)
(* tells apart.  An empty entry ("a,,b") and an argument that is neither   *)
(* "no-url" nor "checks=..." change nothing: they are stuttering steps.    *)
(***************************************************************************)
EXTENDS Integers, Sequences

CONSTANTS
  Names,          \* names a check list may mention, "all" excepted
  All,            \* the reserved name "all"
  MaxDirectives   \* bound on the directives that are parsed successfully

ASSUME NamesAssumption == All \notin Names

VARIABLES
  m_all,      \* Checks::m_all
  m_checks,   \* Checks::m_checks, a map from the names mentioned so far
  m_use_url,  \* Config::m_use_url
  parsing,    \* where Config::parse is: between arguments, in a list, done
  log         \* history: the directives applied so far, in order

configVars == <<m_all, m_checks, m_use_url, parsing, log>>

(* Check::State and its spelling, Check::parse. *)
State == {"Disabled", "Note", "Warning", "Error"}
LevelOf ==
  [s \in {"none", "warn", "err", "note"} |->
     CASE s = "none" -> "Disabled"
       [] s = "warn" -> "Warning"
       [] s = "err"  -> "Error"
       [] s = "note" -> "Note"]

(* What may follow a name: one of the spelled levels, nothing, or text that *)
(* spells no level.                                                         *)
Spelling == DOMAIN LevelOf \cup {"omitted", "unknown"}

(* An entry of a list: "-name", "-name=..." or "name", "name=level". *)
Entry ==
  [minus : BOOLEAN, name : Names \cup {All}, level : Spelling]

Directive == [check : Names \cup {All}, level : State]

-----------------------------------------------------------------------------

(* Parser::operator(): an entry is a value unless "-name" carries a '=' or  *)
(* the level is unknown; "name" alone means "name=warn".                    *)
IsValue(e) == IF e.minus THEN e.level = "omitted" ELSE e.level # "unknown"

ValueOf(e) ==
  [check |-> e.name,
   level |-> IF e.minus THEN "Disabled"
             ELSE IF e.level = "omitted" THEN "Warning" ELSE LevelOf[e.level]]

(* Faulty variant of Level: "all" is an upper bound that switches off. *)
Level_AllOverrides(c) ==
  IF c \in DOMAIN m_checks /\ m_all # "Disabled" THEN m_checks[c] ELSE m_all

(* Checks::operator[]: the entry of the check itself, else that of "all". *)
Level(c) == IF c \in DOMAIN m_checks THEN m_checks[c] ELSE m_all

(* Faulty variant of Assign: get() has no case for "all". *)
Assign_AllIsAName(d) ==
  /\ m_checks' = [c \in DOMAIN m_checks \cup {d.check} |->
                    IF c = d.check THEN d.level ELSE m_checks[c]]
  /\ UNCHANGED m_all

(* Checks::get(d.check) = d.level, where get inserts a missing name. *)
Assign(d) ==
  IF d.check = All
    THEN m_all' = d.level /\ UNCHANGED m_checks
    ELSE /\ m_checks' = [c \in DOMAIN m_checks \cup {d.check} |->
                           IF c = d.check THEN d.level ELSE m_checks[c]]
         /\ UNCHANGED m_all

-----------------------------------------------------------------------------

(* Config::Config: everything is off; ICA_NO_URL decides m_use_url. *)
ConfigInit ==
  /\ m_all = "Disabled"
  /\ m_checks = [c \in {} |-> "Disabled"]
  /\ m_use_url \in BOOLEAN
  /\ parsing = "arguments"
  /\ log = <<>>

NoUrlArgument ==
  /\ parsing = "arguments"
  /\ m_use_url' = FALSE
  /\ UNCHANGED <<m_all, m_checks, parsing, log>>

ChecksArgument ==
  /\ parsing = "arguments"
  /\ parsing' = "list"
  /\ UNCHANGED <<m_all, m_checks, m_use_url, log>>

(* One turn of the loop in Checks::parse that yields a value. *)
ParseValue(e) ==
  /\ parsing = "list"
  /\ IsValue(e)
  /\ Len(log) < MaxDirectives
  /\ Assign(ValueOf(e))
  /\ log' = Append(log, ValueOf(e))
  /\ UNCHANGED <<m_use_url, parsing>>

(* An error ends Checks::parse and Config::parse; what was assigned before  *)
(* it stays assigned.                                                       *)
ParseError(e) ==
  /\ parsing = "list"
  /\ ~IsValue(e)
  /\ parsing' = "failed"
  /\ UNCHANGED <<m_all, m_checks, m_use_url, log>>

ListDone ==
  /\ parsing = "list"
  /\ parsing' = "arguments"
  /\ UNCHANGED <<m_all, m_checks, m_use_url, log>>

ArgumentsDone ==
  /\ parsing = "arguments"
  /\ parsing' = "parsed"
  /\ UNCHANGED <<m_all, m_checks, m_use_url, log>>

ConfigNext ==
  \/ NoUrlArgument
  \/ ChecksArgument
  \/ \E e \in Entry : ParseValue(e) \/ ParseError(e)
  \/ ListDone
  \/ ArgumentsDone

ConfigSpec == ConfigInit /\ [][ConfigNext]_configVars

-----------------------------------------------------------------------------

(* The variables have their types. *)
ConfigTypeOK ==
  /\ m_all \in State
  /\ DOMAIN m_checks \subseteq Names
  /\ m_checks \in [DOMAIN m_checks -> State]
  /\ m_use_url \in BOOLEAN
  /\ parsing \in {"arguments", "list", "parsed", "failed"}
  /\ log \in Seq(Directive)

(* d is the last directive of the log about name n. *)
IsLastAbout(n, d) ==
  \E i \in 1..Len(log) :
    /\ log[i] = d
    /\ d.check = n
    /\ \A j \in 1..Len(log) : log[j].check = n => j <= i

Mentioned(n) == \E i \in 1..Len(log) : log[i].check = n

(* The level in force for a check is that of the last directive that names *)
(* it; only if none does, that of the last "all"; with neither, the check  *)
(* is off.  So "all" never overrides a check named anywhere on the command *)
(* line, before or after it, in the same argument or in another            *)
(* (Checks::get, Checks::operator[], Config::parse's loop).                *)
LastMentionWins ==
  \A c \in Names :
    \/ \E d \in Directive : IsLastAbout(c, d) /\ Level(c) = d.level
    \/ /\ ~Mentioned(c)
       /\ \E d \in Directive : IsLastAbout(All, d) /\ Level(c) = d.level
    \/ ~Mentioned(c) /\ ~Mentioned(All) /\ Level(c) = "Disabled"

=============================================================================
