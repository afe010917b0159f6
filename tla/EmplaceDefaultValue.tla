------------------------- MODULE EmplaceDefaultValue -------------------------
(***************************************************************************)
(* EmplaceDefaultValueVisitor: m_has_try_emplace, which remembers for a    *)
(* class whether it has try_emplace(), and the fix-it.  Nothing resets it: *)
(* clear() is called for the visitors of top-level declarations only.  A   *)
(* call is the text from the name of the method on, in pieces that the     *)
(* code tells apart.                                                       *)
(***************************************************************************)
EXTENDS Integers, Sequences, FiniteSetsExt, SequencesExt

CONSTANTS
  Records,     \* the classes
  TryRecords,  \* those that declare a method or a template try_emplace
  Args,        \* what calls are given, see Arg
  MaxArgs,     \* bound on the arguments of a call
  MaxCalls     \* bound on the calls

(* "pieces" are those of the text, "loc" the one that getExprLoc() names;   *)
(* "default" is a temporary made by a default constructor.                  *)
Arg == [pieces : Seq(STRING), loc : Nat, default : BOOLEAN]

(* What the constants must be; assumed where they get their values. *)
EmplaceDefaultValueAssumption ==
  /\ TryRecords \subseteq Records
  /\ \A a \in Args : a \in Arg /\ a.loc \in 1..Len(a.pieces)
  /\ MaxArgs \in Nat /\ MaxCalls \in Nat

VARIABLES
  m_has_try_emplace,  \* class -> whether it has try_emplace()
  reports,            \* diagnostics: calls and their text after the fix
  calls               \* history: the calls, in order

vars == <<m_has_try_emplace, reports, calls>>

(* "other" is also a call that shouldProcessExpr() skips, as in a macro.     *)
Methods == {"emplace", "try_emplace", "emplace_hint", "other"}

(* "record" is the class of the object, or empty if it is not known. *)
Call == [method : Methods, args : UNION {[1..n -> Args] : n \in 1..MaxArgs},
         record : {{}} \cup {{r} : r \in Records}]

-----------------------------------------------------------------------------

(* The text of a call. *)
Comma == ","
Opening == "("
Closing == ")"
Name(method) == IF method = "emplace_hint" THEN <<"emplace", "_hint">> ELSE <<method>>
ArgsText(args) ==  \* of the first n arguments
  LET text[n \in 0..Len(args)] ==
        IF n = 0 THEN <<>>
        ELSE (IF n = 1 THEN <<>> ELSE Append(text[n - 1], Comma)) \o args[n].pieces
  IN  text
Before(call, n) ==  \* the number of pieces before the n-th argument
  Len(Name(call.method)) + 1 + IF n = 1 THEN 0 ELSE Len(ArgsText(call.args)[n - 1]) + 1
Text(call) == Name(call.method) \o <<Opening>> \o ArgsText(call.args)[Len(call.args)] \o <<Closing>>

(* getCharacterData() stores into its second parameter whether the location *)
(* is invalid, so that is_ok, which was true, becomes false.                *)
is_ok == FALSE

(* The first piece that the fix-it of makeReport removes: the comma is only *)
(* looked for if is_ok.                                                     *)
RemovalStart(call) ==
  LET n == Len(call.args)
      key == Before(call, n - 1) + call.args[n - 1].loc
  IN  IF is_ok THEN Min({i \in key..Len(Text(call)) : Text(call)[i] = Comma}) ELSE key

(* Faulty variant of Removed: the suffix of emplace_hint stays. *)
Removed_KeepHint(call) == RemovalStart(call)..(Len(Text(call)) - 1)

Removed(call) ==
  RemovalStart(call)..(Len(Text(call)) - 1) \cup (IF call.method = "emplace_hint" THEN {2} ELSE {})

(* The text after the fix-it of makeReport. *)
Fixed(call) ==
  LET left[i \in 0..Len(Text(call))] ==  \* of the first i pieces
        IF i = 0 THEN <<>>
        ELSE IF i \in Removed(call) THEN left[i - 1]
        ELSE Append(left[i - 1], Text(call)[i])
  IN  (IF call.method = "try_emplace" THEN <<>> ELSE <<"try_">>) \o left[Len(Text(call))]

-----------------------------------------------------------------------------

Init ==
  /\ m_has_try_emplace = <<>>
  /\ reports = {}
  /\ calls = <<>>

(* m_has_try_emplace after an answer for a class is added, if it has none. *)
Emplaced(r, answer) ==
  [c \in DOMAIN m_has_try_emplace \cup {r} |->
     IF c \in DOMAIN m_has_try_emplace THEN m_has_try_emplace[c] ELSE answer]

(* Faulty variant of hasTryEmplace: only the first class is looked into. *)
hasTryEmplace_First(r) == Emplaced(r, m_has_try_emplace = <<>> /\ r \in TryRecords)

(* hasTryEmplace: m_has_try_emplace after it was asked about a class. *)
hasTryEmplace(r) == Emplaced(r, r \in TryRecords)

(* The calls for which VisitCXXMemberCallExpr asks hasTryEmplace: for       *)
(* emplace_hint the number of arguments is not compared with 3.             *)
IsCandidate(call) ==
  \/ call.method \in {"emplace", "try_emplace"} /\ Len(call.args) = 2
  \/ call.method = "emplace_hint"

(* VisitCXXMemberCallExpr; emplace_hint with a default-constructed position *)
(* and nothing else, for which it reads before the first argument, is left  *)
(* out.                                                                     *)
VisitCXXMemberCallExpr(call) ==
  /\ Len(calls) < MaxCalls
  /\ Len(call.args) = 1 => ~call.args[1].default
  /\ calls' = Append(calls, call)
  /\ IF IsCandidate(call) /\ call.record # {}
       THEN LET r == CHOOSE r \in Records : r \in call.record
            IN  /\ m_has_try_emplace' = hasTryEmplace(r)
                /\ reports' = reports \cup
                     IF m_has_try_emplace'[r] /\ Last(call.args).default
                       THEN {[call |-> Len(calls) + 1, text |-> Fixed(call)]} ELSE {}
       ELSE UNCHANGED <<m_has_try_emplace, reports>>

Next == \E call \in Call : VisitCXXMemberCallExpr(call)

Spec == Init /\ [][Next]_vars

-----------------------------------------------------------------------------

(* However often a class was asked about, every emplace and try_emplace of  *)
(* a key and a default value is reported, every emplace_hint with a default *)
(* value in the end, and nothing else; the class has try_emplace().         *)
DefaultsAreReported ==
  \A n \in 1..Len(calls) :
    LET c == calls[n]
    IN  (\E r \in reports : r.call = n) <=>
          /\ c.record \cap TryRecords # {}
          /\ Last(c.args).default
          /\ c.method = "emplace_hint" \/ (c.method # "other" /\ Len(c.args) = 2)

(* What the fix leaves is a call of try_emplace, with everything that stood *)
(* before the last two arguments, and nothing from behind them.             *)
FixCallsTryEmplace ==
  \A r \in reports :
    LET c == calls[r.call]
        rest == SubSeq(Text(c), Len(Name(c.method)) + 1, Before(c, Len(c.args) - 1))
        name == IF c.method = "try_emplace" THEN <<"try_emplace">> ELSE <<"try_", "emplace">>
    IN  /\ IsPrefix(name \o rest, r.text)
        /\ Last(r.text) = Closing

(* The fix "suggests to use `try_emplace` method instead" (Checks.md): the  *)
(* key stays.  The code does not keep this: see the README.                 *)
FixKeepsKey ==
  \A r \in reports :
    LET key == calls[r.call].args[Len(calls[r.call].args) - 1].pieces
    IN  IsSuffix(key \o <<Closing>>, r.text)

=============================================================================
