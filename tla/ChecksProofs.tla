---------------------------- MODULE ChecksProofs ----------------------------
(* Theorems about the configuration (module Checks), for any set of names   *)
(* and any bound on the number of directives.                               *)
EXTENDS Checks, TLAPS

(* Appending a directive extends the log by it and keeps the rest. *)
LEMMA LogAppend ==
  ASSUME log \in Seq(Directive), NEW d \in Directive, log' = Append(log, d)
  PROVE  /\ log' \in Seq(Directive)
         /\ Len(log') = Len(log) + 1
         /\ Len(log) \in Nat
         /\ log'[Len(log) + 1] = d
         /\ \A i \in 1..Len(log) : log'[i] = log[i] /\ log[i] \in Directive
  OBVIOUS

(* A value of the parser is a directive. *)
LEMMA ValueIsDirective ==
  ASSUME NEW e \in Entry, IsValue(e)
  PROVE  /\ ValueOf(e) \in Directive
         /\ ValueOf(e).check \in Names \cup {All}
         /\ ValueOf(e).level \in State
<1>1. e.level \in {"none", "warn", "err", "note", "omitted", "unknown"}
  BY DEF Entry, Spelling, LevelOf
<1>2. ValueOf(e).level \in State
  BY <1>1 DEF ValueOf, IsValue, LevelOf, State
<1>3. ValueOf(e).check \in Names \cup {All}
  BY DEF ValueOf, Entry
<1> QED
  BY <1>2, <1>3 DEF ValueOf, Directive

LEMMA AssignTypes ==
  ASSUME ConfigTypeOK, NEW d \in Directive, Assign(d)
  PROVE  /\ m_all' \in State
         /\ DOMAIN m_checks' \subseteq Names
         /\ m_checks' \in [DOMAIN m_checks' -> State]
<1>1. d.check \in Names \cup {All} /\ d.level \in State
  BY DEF Directive
<1>2. CASE d.check = All
  BY <1>1, <1>2 DEF Assign, ConfigTypeOK
<1>3. CASE d.check # All
  BY <1>1, <1>3 DEF Assign, ConfigTypeOK
<1> QED
  BY <1>2, <1>3

LEMMA ConfigTypeStep == ConfigTypeOK /\ [ConfigNext]_configVars => ConfigTypeOK'
<1> SUFFICES ASSUME ConfigTypeOK, [ConfigNext]_configVars
             PROVE  ConfigTypeOK'
  OBVIOUS
<1>1. CASE NoUrlArgument
  BY <1>1 DEF NoUrlArgument, ConfigTypeOK
<1>2. CASE ChecksArgument
  BY <1>2 DEF ChecksArgument, ConfigTypeOK
<1>3. ASSUME NEW e \in Entry, ParseValue(e)
      PROVE  ConfigTypeOK'
  <2>1. ValueOf(e) \in Directive
    BY <1>3, ValueIsDirective DEF ParseValue
  <2>2. log' \in Seq(Directive)
    BY <1>3, <2>1 DEF ParseValue, ConfigTypeOK
  <2>3. /\ m_all' \in State
        /\ DOMAIN m_checks' \subseteq Names
        /\ m_checks' \in [DOMAIN m_checks' -> State]
    BY <1>3, <2>1, AssignTypes DEF ParseValue
  <2> QED
    BY <1>3, <2>2, <2>3 DEF ParseValue, ConfigTypeOK
<1>4. ASSUME NEW e \in Entry, ParseError(e)
      PROVE  ConfigTypeOK'
  BY <1>4 DEF ParseError, ConfigTypeOK
<1>5. CASE ListDone
  BY <1>5 DEF ListDone, ConfigTypeOK
<1>6. CASE ArgumentsDone
  BY <1>6 DEF ArgumentsDone, ConfigTypeOK
<1>7. CASE UNCHANGED configVars
  BY <1>7 DEF configVars, ConfigTypeOK
<1> QED
  BY <1>1, <1>2, <1>3, <1>4, <1>5, <1>6, <1>7 DEF ConfigNext

(* The configuration is well typed whatever the command line is. *)
THEOREM ConfigTypeCorrect == ConfigSpec => []ConfigTypeOK
<1>1. ConfigInit => ConfigTypeOK
  BY DEF ConfigInit, ConfigTypeOK, State
<1> QED
  BY <1>1, ConfigTypeStep, PTL DEF ConfigSpec

-----------------------------------------------------------------------------

(* What LastMentionWins needs to be inductive: the map holds exactly the    *)
(* names mentioned, each at the level of its last mention, and m_all that   *)
(* of the last "all".                                                       *)
LogIsReplayed ==
  /\ \A c \in Names :
       IF c \in DOMAIN m_checks
         THEN \E d \in Directive : IsLastAbout(c, d) /\ m_checks[c] = d.level
         ELSE ~Mentioned(c)
  /\ \/ \E d \in Directive : IsLastAbout(All, d) /\ m_all = d.level
     \/ ~Mentioned(All) /\ m_all = "Disabled"

(* A directive about another name leaves the last mention of n in place. *)
LEMMA OtherNameKept ==
  ASSUME log \in Seq(Directive), NEW d \in Directive, log' = Append(log, d),
         NEW n, n # d.check, NEW b \in Directive
  PROVE  /\ IsLastAbout(n, b) => IsLastAbout(n, b)'
         /\ ~Mentioned(n) => ~Mentioned(n)'
<1>1. /\ Len(log') = Len(log) + 1
      /\ Len(log) \in Nat
      /\ log'[Len(log) + 1] = d
      /\ \A i \in 1..Len(log) : log'[i] = log[i]
  BY LogAppend
<1>2. ASSUME IsLastAbout(n, b)
      PROVE  IsLastAbout(n, b)'
  <2>1. PICK i \in 1..Len(log) :
          /\ log[i] = b
          /\ b.check = n
          /\ \A j \in 1..Len(log) : log[j].check = n => j <= i
    BY <1>2 DEF IsLastAbout
  <2>2. i \in 1..Len(log') /\ log'[i] = b
    BY <1>1, <2>1
  <2>3. ASSUME NEW j \in 1..Len(log'), log'[j].check = n
        PROVE  j <= i
    BY <1>1, <2>1, <2>3
  <2> QED
    BY <2>1, <2>2, <2>3 DEF IsLastAbout
<1>3. ASSUME ~Mentioned(n)
      PROVE  ~Mentioned(n)'
  BY <1>1, <1>3 DEF Mentioned
<1> QED
  BY <1>2, <1>3

(* The directive just appended is the last one about its name. *)
LEMMA NewNameIsLast ==
  ASSUME log \in Seq(Directive), NEW d \in Directive, log' = Append(log, d)
  PROVE  IsLastAbout(d.check, d)'
<1>1. /\ Len(log') = Len(log) + 1
      /\ Len(log) \in Nat
      /\ log'[Len(log) + 1] = d
  BY LogAppend
<1> QED
  BY <1>1 DEF IsLastAbout

LEMMA LogIsReplayedStep ==
  ConfigTypeOK /\ LogIsReplayed /\ [ConfigNext]_configVars => LogIsReplayed'
<1> SUFFICES ASSUME ConfigTypeOK, LogIsReplayed, [ConfigNext]_configVars
             PROVE  LogIsReplayed'
  OBVIOUS
<1>1. ASSUME NEW e \in Entry, ParseValue(e)
      PROVE  LogIsReplayed'
  <2> DEFINE d == ValueOf(e)
  <2>1. d \in Directive /\ d.check \in Names \cup {All}
    BY <1>1, ValueIsDirective DEF ParseValue
  <2>2. log \in Seq(Directive) /\ log' = Append(log, d)
    BY <1>1 DEF ParseValue, ConfigTypeOK
  <2>3. Assign(d)
    BY <1>1 DEF ParseValue
  <2>4. \A n : n # d.check =>
          /\ \A b \in Directive : IsLastAbout(n, b) => IsLastAbout(n, b)'
          /\ ~Mentioned(n) => ~Mentioned(n)'
    BY <2>1, <2>2, OtherNameKept
  <2>5. IsLastAbout(d.check, d)'
    BY <2>1, <2>2, NewNameIsLast
  <2> HIDE DEF d
  <2>6. CASE d.check = All
    <3>1. m_all' = d.level /\ m_checks' = m_checks
      BY <2>3, <2>6 DEF Assign
    <3>2. \A c \in Names : c # d.check
      BY <2>6, NamesAssumption
    <3>3. ASSUME NEW c \in Names
          PROVE  IF c \in DOMAIN m_checks'
                   THEN \E b \in Directive : IsLastAbout(c, b)' /\ m_checks'[c] = b.level
                   ELSE ~Mentioned(c)'
      BY <2>4, <3>1, <3>2, <3>3 DEF LogIsReplayed
    <3>4. \E b \in Directive : IsLastAbout(All, b)' /\ m_all' = b.level
      BY <2>1, <2>5, <2>6, <3>1
    <3> QED
      BY <3>3, <3>4 DEF LogIsReplayed
  <2>7. CASE d.check # All
    <3>1. /\ m_checks' = [c \in DOMAIN m_checks \cup {d.check} |->
                            IF c = d.check THEN d.level ELSE m_checks[c]]
          /\ m_all' = m_all
      BY <2>3, <2>7 DEF Assign
    <3>2. ASSUME NEW c \in Names
          PROVE  IF c \in DOMAIN m_checks'
                   THEN \E b \in Directive : IsLastAbout(c, b)' /\ m_checks'[c] = b.level
                   ELSE ~Mentioned(c)'
      <4>1. CASE c = d.check
        BY <2>1, <2>5, <3>1, <4>1
      <4>2. CASE c # d.check
        BY <2>4, <3>1, <4>2 DEF LogIsReplayed
      <4> QED
        BY <4>1, <4>2
    <3>3. \/ \E b \in Directive : IsLastAbout(All, b)' /\ m_all' = b.level
          \/ ~Mentioned(All)' /\ m_all' = "Disabled"
      BY <2>4, <2>7, <3>1 DEF LogIsReplayed
    <3> QED
      BY <3>2, <3>3 DEF LogIsReplayed
  <2> QED
    BY <2>6, <2>7
<1>2. ASSUME UNCHANGED <<m_all, m_checks, log>>
      PROVE  LogIsReplayed'
  BY <1>2 DEF LogIsReplayed, IsLastAbout, Mentioned
<1> QED
  BY <1>1, <1>2 DEF ConfigNext, configVars, NoUrlArgument, ChecksArgument,
                    ParseError, ListDone, ArgumentsDone

LEMMA LogIsReplayedInv == ConfigSpec => []LogIsReplayed
<1>1. ConfigInit => LogIsReplayed
  BY DEF ConfigInit, LogIsReplayed, Mentioned
<1> QED
  BY <1>1, LogIsReplayedStep, ConfigTypeCorrect, PTL DEF ConfigSpec

(* Whatever the arguments, the level in force for a check is that of its    *)
(* last mention, else of the last "all", else Disabled.                     *)
THEOREM LastMentionAlwaysWins == ConfigSpec => []LastMentionWins
<1>1. LogIsReplayed => LastMentionWins
  BY DEF LogIsReplayed, LastMentionWins, Level
<1> QED
  BY <1>1, LogIsReplayedInv, PTL

=============================================================================
