# A TLA+ verification of itiviti-cpp-analyzer

The analyzer is a clang plugin.  The compiler calls it for every top-level
declaration and once for the whole translation unit; it walks the AST and a
number of *visitors* emit diagnostics.  Everything runs in one thread.  What is
hard is not concurrency but *order*: a visitor is a set of callbacks that share
member variables, the AST decides in which order the callbacks come, and a
member that one callback sets is read by another long after.  Its tests run
each check on short files; they hardly reach a lambda in a constructor of a
local class, a second declaration after a first, or two checks enabled
together.  Those sequences are what the modules here explore.

Paths below are relative to the repository's root.

## 1. Inventory

| Part | State | Operations | Interacts with |
|---|---|---|---|
| Configuration: `Checks`, `Config` (`src/shared/common`) | `m_all`, `m_checks`, `m_use_url` | `Config::parse` over the arguments, `Checks::parse` over a list, `operator[]` | read by every visitor's constructor |
| Life cycle: `Action`, `Consumer`, `UnitedVisitor`, `Visitor` | `m_enabled`, `m_context` of each visitor | `ParseArgs`, `CreateASTConsumer`, `HandleTopLevelDecl`, `HandleTranslationUnit`, dispatch of nodes | called by the compiler; calls the visitors |
| find-emplace, try_emplace-instead-emplace: `FindEmplaceVisitor` | `m_calls`, `m_curr_stmt`, `m_parent_of`, `m_stmt_iterators` | pre/post of blocks, variables, calls, `clear` | per top-level declaration |
| erase-in-loop: `EraseInLoopVisitor` | `m_stack`, `m_parents` | pre/post, `for`, `erase` | per translation unit |
| bad-rand: `BadRandVisitor` | `m_rand_engns`, two stacks, `m_cycle_depth`, `m_is_defining_seed` | seven Visit methods, pre/post | per top-level declaration, never cleared |
| return-value-type: `ReturnValueVisitor` | `m_comp_stmt_stack` | functions, returns, post | per top-level declaration, never cleared |
| init-members: `InitMembersVisitor` | `m_curr_ctor_body`, `m_to_report` | constructors, assignments, post | per top-level declaration, never cleared |
| const-cast-member, temporary-in-ctor, static-keyword: `MiscellaneousVisitor` | `m_last_assigned`, two stacks | constructors, blocks, variables, references, assignments, post | per translation unit |
| improper-move: `ImproperMoveVisitor` | `m_params_stack`, `m_last_const_cast`, `m_non_template_params` | functions, calls of `move`, pre/post of casts | per top-level declaration, never cleared |
| move-string-stream: `MoveStringStreamVisitor` | two maps of references | variables, references, `str()`, `clear`, `printDiagnostic` | per top-level declaration |
| release-lock: `LockGuardReleaseVisitor` | pending variables, pending calls | `release()`, `unlock()`, `printDiagnostic` | per translation unit |
| for-range-const, const-param: `ForRangeConstVisitor` | `m_checked_vars`, `m_mb_refs`, `m_non_templated_params`, `m_function_decl_stack`, two caches of facts about types | functions, loops, returns, modifications of all kinds, post | per top-level declaration, never cleared |
| remove-c_str: `RemoveCStrVisitor` | `m_last_visited_function_decl` | functions, calls | per translation unit |
| noexcept: `NoexceptVisitor` | none between functions; the search of a body stops at the first hit | functions | per translation unit |
| emplace-default-value: `EmplaceDefaultValueVisitor` | `m_has_try_emplace` | calls of members (`clear` is never called for a visitor of the unit) | per translation unit |
| char-in-ctype-pred, inline-methods-in-class | none | one Visit method each | per translation unit |
| `Common.cpp` | none | pure functions on the AST: `isIdenticalStmt`, `extractDeclRef`, tests of types, names and locations | used by all visitors |
| `DiagnosticsBuilder.h` | one message | formatting | used by all visitors |

What makes each part correct:

* configuration: the level in force is the one the command line means, whatever
  the order of its directives;
* life cycle: exactly the visitors asked for are called, with a context;
* a stateful visitor: its members say where the traversal is (which block,
  loop, constructor or function is open), whatever the nesting; nothing is
  forgotten or reported twice; a report is justified by the code it is about,
  and what the documentation promises to report is reported;
* a stateless visitor: its condition on a node is the documented one.

`PROJECT.json` lists the hazards line by line.

## 2. Modules

| Module | Contents |
|---|---|
| `Checks` | `Config::parse`, `Checks::parse`, `Checks::operator[]` |
| `Plugin` | EXTENDS `Checks`: `Action`, `Consumer`, `UnitedVisitor`, `Visitor` |
| `FindScopes` | the abstract promise of find-emplace |
| `FindEmplace` | `FindEmplaceVisitor`; implements `FindScopes` |
| `EraseInLoop` | `EraseInLoopVisitor` |
| `Traversal` | the order of callbacks, shared by the modules that follow |
| `BadRand`, `InitMembers`, `Miscellaneous`, `MoveStringStream`, `LockGuardRelease`, `ReturnValue` | EXTEND `Traversal`: one visitor each |
| `Visitors` | instances of these six, to be checked and proved about together |
| `ForRangeConst`, `RemoveCStr`, `ImproperMove`, `Noexcept` | EXTEND `Traversal`: the visitors that are about functions |
| `FunctionVisitors` | instances of these four, to be checked and proved about together |
| `Identical` | `isIdenticalStmt` of `Common.cpp`, over pairs of expressions |
| `EmplaceDefaultValue` | `EmplaceDefaultValueVisitor`, over sequences of calls |
| `Matchers` | instances of these two, to be checked and proved about together |
| `MCPlugin`, `MCFindEmplace`, `MCEraseInLoop`, `MCFunctions`, `MCMatchers` | values of the constants for TLC |
| `ChecksProofs`, `PluginProofs`, `FindEmplaceProofs`, `EraseInLoopProofs`, `VisitorsProofs`, `FunctionVisitorsProofs`, `MatchersProofs`, `VectorLemmas` | theorems and proofs |

### Conventions

* **The AST is produced on the fly.**  A behaviour of a visitor's module is one
  traversal of some AST: `open` is the sequence of nodes entered and not left,
  an action enters a node, visits a leaf or leaves the innermost node, and runs
  the handler that the code runs then.  So TLC explores every nesting of at
  most `MaxNodes` nodes instead of a chosen list of ASTs.
* A node is a number, fresh at every visit, in the role of its address; 0 is
  null.  A function or constructor shares its number with its body: handlers
  compare the body's address only.  The body of a `BadRand` constructor is a
  step of its own, because parameters and initialisers come before it.
* A node has only the attributes that the handlers tell apart: the kind of
  statement, whether a right-hand side uses a local, what becomes of the result
  of `release()`.  Matchers, names and types are the data behind them.
* "hidden" is code that `shouldProcessStmt`, `shouldProcessDecl` or
  `shouldProcessExpr` skips: macros, NOLINT, system headers.  Where a handler
  that skips it leaves something behind that a property is about (a use that is
  not seen, a flag that is not reset, a function that is not pushed), hidden nodes
  are in the module, and the property says what it promises of code that is not
  hidden.  Where skipping a node has no effect but that it is not looked at, a
  hidden node is another node that the visitor ignores, or no event.
* A `std::map` or `unordered_map` is a function on its keys; iteration order,
  and in `ImproperMove` the order of addresses, is left open.
* `reports` is the set of diagnostics emitted so far.  Variables marked
  *history* are read by properties only; they record what the traversed code
  says, so that a report can be judged by it.
* Every run that looks at the code's members has `CHECK_DEADLOCK FALSE` when the
  translation unit may end; the bound on nodes ends all of the others.
* Undefined behaviour is a flag (`crashed`, `undefined`, `found = FALSE`) after
  which nothing is assumed.
* Operators named `X_Word` are faulty variants of `X`: each property is shown
  to fail when one of them replaces the definition it varies.
* A file `MCX.cfg` without a module `MCX` configures the module whose name it
  begins with (`MCBadRandLeak.cfg`: `BadRand`), except for
  `MCConstParamIncrement.cfg`, which configures `MCFunctions`, and
  `MCEmplaceFixIt.cfg`, which configures `MCMatchers`.
* A module that is only instantiated states what its constants must be as a
  definition (`NoexceptAssumption`); the module that instantiates it assumes it
  of the values it hands on.

### Correspondence, module by module

**Checks.**  `parsing` is the position of `Config::parse`: between arguments, in
a list, failed or done.  `Assign` is `Checks::get(name) = level`, whose special
case is `all`; `Level` is `operator[]`.  An entry is what the parser's branches
tell apart (`IsValue`, `ValueOf`).  Unknown check names are accepted, as in the
code.

**Plugin.**  `stage` is what the compiler has the plugin do.  `m_enabled` and
`m_context` are sets of visitors.  `HandleTopLevelDecl` and `HandleTranslationUnit`
stand for what comes before `TraverseDecl`, `VisitNode` for one dispatched node,
`PrintDiagnostic` for what follows the traversal.  What one declaration leaves
behind for the next is in the modules of the visitors.

**FindEmplace.**  `EnterCompound` and `LeaveCompound` are the pre and post
callbacks of a block, `EnterControl` enters an if, for, while or switch, which
the visitor ignores although variables can be declared in it.  A container and a
key are one *place*.  `getSameAsFindVar` is the walk over `m_parent_of` (`Chain`);
`LookedAt` are the blocks for which `operator[]` leaves an empty entry.
`reportCompoundStmt` includes the dereference of what `iter_of_decl` returns.
As an implementation of `FindScopes`, the scopes are the numbers of the open
blocks (`Scopes`), each with the iterators filed under it (`FindsOf`), and `Due`
and `Told` are what `m_calls` and the reports of find-emplace say.

**EraseInLoop.**  `Push` is `dataTraverseStmtPre`, which every statement runs
before its Visit method.  `EnterErase` contains the search of `m_stack`
(`findForStrmForVar`) and of the parent's children (`hasReturnOrBreakChild`).
`invalid` is computed from `open` alone.

**BadRand.**  `EnterCtorBody` and `LeaveCtorBody` are the callbacks of a
constructor's body, whose branch in `dataTraverseStmtPost` hides the one for
blocks.  `VisitDefaultedCtor` is a defaulted constructor to which the compiler
has given a body that is not traversed.  `EnterSeed` and `LeaveSeed` bracket an
expression in which `m_is_defining_seed` is meant to hold; `EnterHidden` enters
one that is skipped, so that the flag stays as it was, while its end is seen.
`VisitMove` and `VisitEngineCall` name an engine, hidden or not; `Use` is the
history of those in a loop.

**ReturnValue.**  "followed" functions are on `m_comp_stmt_stack`; "ignored"
ones return void, a reference, or are instances of templates; a lambda's body
is traversed without a `VisitFunctionDecl`.  A hidden `return` is not booked.

**InitMembers.**  `Assign` is both kinds of assignment operators with
`checkAssignment` and `addToReport`.  `VisitMemberExpr` is left out because
`UnitedVisitor` does not dispatch it.

**Miscellaneous.**  The set of enabled checks is a choice of `Init`, because it
changes which stacks are kept.  `VisitAssignment` runs
`VisitCXXOperatorCallExpr` and then the `VisitDeclRefExpr` of the same
variable.  const-cast-member and `VisitFunctionDecl` are left out: they keep
nothing.

**MoveStringStream.**  `BeginDeclaration` is `clear()`, `EndDeclaration`
`printDiagnostic()`; several declarations follow one another.

**LockGuardRelease.**  Calls come one after the other; a release either goes
into a variable (`VisitStoredRelease`) or has another fate (`VisitRelease`).  The
histories `pointer_calls` and `discarded` are what is written, hidden or not;
`Seen` are the calls that the visitor looks at.

**ImproperMove.**  A parameter is its address; `Allocations` chooses addresses in
any order, because `std::sort` and `std::lower_bound` compare them.  `Traits` are
the parameters as `std::transform` leaves them, and `sorted` the orders of them that
`std::sort` may leave.
`is_not_template` and `findParameter` are the code's local functions.  A hidden
`VisitMove` reports nothing.

**ForRangeConst.**  `EnterFunction` is `VisitFunctionDecl` with the choice of the
parameters that go into `m_checked_vars`; `Mutable` are the parameters it takes,
`NonTemplated` the indices that it keeps of a template and `not_templated` the
merge of an instance's parameters with these indices, both modulo 256.  A use of
a variable has a *path*: the expressions between the one that needs a mutable
reference and the variable.  `Finds` follows `addMutRefProducer`, `producesMutRef`
and the visits of calls on that path, `Extracts` is `extractDeclRef`, and
`removeCheckedVar` drops all variables of one loop together.  The Visit methods
that take a variable out of `m_checked_vars` differ in matchers and types only,
and are one action, `VisitModification`; `VisitReturnStmt` is apart because it
looks at `m_function_decl_stack`, `VisitIncrement` because it is never called, and
`VisitHiddenDecl` because of these methods `VisitVarDecl` alone skips what is hidden.
In `EnterLoop`, a loop variable that is a pointer is never checked, but takes the
range out like a mutable reference.
`Leave` is `dataTraverseStmtPost` with the reports of `end_body`.

**RemoveCStr.**  The methods of one class are sets of names and types of
parameters.  `compareCurrentAndOverload` gives the *set* of values that the code
may return: of an overload that is shorter than the current method it reads past
the end.  `Overloads` is the search for an overload with `std::string_view` in
the place of the argument.

**Noexcept.**  `VisitFunctionDecl` searches a whole body at once
(`find_reportable_child`); the module meets the same statements in the same order
along the traversal, and `IsReached` says whether the search of the current
function would get there: not into try blocks, lambdas and hidden statements, and
not after a hit.  `shouldReport` is all of its overloads; `isNoexcept` compares
positions in clang's enumeration, as the code does.

**Identical.**  An expression is the sequence of its nodes, each with the number of
its children.  `Missing` counts, after each node, the expressions that are missing
to complete the whole one; the children of a node (`Child`) and what is below it
(`Below`, for clang's `HasSideEffects`) are found from it.  The recursion of
`isIdenticalStmt` over two trees is a recursive function on pairs of positions.
Whether a node has a side effect is told by its class and what it has: a volatile
variable is one by its declaration.
The reference is the equality of what the two sequences read (`Shape`).

**EmplaceDefaultValue.**  A call is the sequence of the pieces of its text.
`RemovalStart` and `Removed` are the arithmetic on source locations in
`makeReport`; `Fixed` is the text after the fix-it.

## 3. Runs and bounds

The passing runs:

| Run | Properties beyond types | Bound, and why it is enough |
|---|---|---|
| `plugin` | the last mention wins; context during traversal; only asked visitors run; asked visitors print | 3 directives (all, a name, and one of them again, over any number of arguments), 2 declarations, 4 visitors of different character |
| `find_emplace` | blocks are stacked; pending calls are found; reports are sound; refinement of `FindScopes`; everything pending is reported | 6 nodes, 2 places, 8 shapes of calls: two nested blocks, two finds and an insertion, or two declarations with `clear()` between |
| `erase_in_loop` | `m_stack` is the open loops; the reports are exact | 5 statements, 2 iterators: two loops, one that is not recognised, a block, a call |
| `visitors` | see below | 5 to 7 nodes |
| `functions` | see below | 4 nodes |
| `matchers` | see below | expressions of 4 nodes, 2 calls |

`visitors` checks six modules in one run.  `Visitors` instantiates each of them;
`Init` chooses the visitor that is enabled, and only its actions are taken.  The
visitors share no state, so that a behaviour of `Visitors` is a behaviour of one
of the modules, and each property speaks of one visitor:

| Visitor | Properties | Bound, and why it is enough |
|---|---|---|
| `BadRand` | `PositionsAreExact` (the depth is that of the open loops, constructors are stacked), `SeedFlagIsSound`, `OneShotsAreSound` | 5 nodes: constructor, block, loop, engine, use, hidden or not |
| `InitMembers` | `PositionsAreExact` (the current body is open), `MembersAreInitializable` | 6 nodes: two constructors, a function, three assignments |
| `Miscellaneous` | `PositionsAreExact` (blocks are stacked), `LastReferencesAreAssignments` | 6 nodes, all subsets of two checks |
| `MoveStringStream` | `VisitorsTypeOK` (the two maps agree), `ReportsAreLastSeen` | 7 nodes: two declarations, or one with a block, a stream and four references |
| `LockGuardRelease` | `PendingReleasesAreExact`, `LockedMutexesAreReported` | 5 calls, each hidden or not, 2 variables: two releases into one, one into the other, unlocks of each |
| `ReturnValue` | `PositionsAreExact` (the stack is the open functions that are followed), `SelfCopiesAreCopies` | 6 nodes: two functions, a lambda, three returns, each hidden or not |

`functions` does the same for the four visitors that are about functions, with 4
nodes each:

| Visitor | Properties | Why the bound is enough |
|---|---|---|
| `ForRangeConst` | `PositionsAreExact` (functions are stacked, checked variables are in scope), `ConstablesAreUnmodified`, `UnmodifiedAreReported` | a template, an instance with three parameters and a use; or a function, a loop with no variable to check, one or two, and two uses through paths of up to two steps |
| `RemoveCStr` | `SuggestionsEnd`, `SilentCallsAreInOverloads` | two nested functions, a declaration and a call; five methods of which three are overloads of different length and one has no parameters |
| `ImproperMove` | `PositionsAreExact` (the last cast is the innermost), `OwnMovesAreExact`, `ConstRvaluesAreSound` | functions with 0 to 2 parameters at 3 addresses, a cast, two moves, hidden or not |
| `Noexcept` | `NotesAreThrows`, `FirstThrowIsNoted` | a function, a skipped statement or a second function, two statements; 7 shapes of functions and 4 of callees, from each group of clang's enumeration |

`matchers` feeds two algorithms with all inputs of a bounded size:

| Algorithm | Properties | Bound, and why it is enough |
|---|---|---|
| `Identical` | `IdenticalIsSound`, `IdenticalIsComplete` | all pairs of expressions of at most 4 nodes over 8 kinds of nodes, so that a child of the root has two children, or one of the two children of the root has one: different arity, value, class, macros, side effects, a class that the code does not know |
| `EmplaceDefaultValue` | `DefaultsAreReported`, `FixCallsTryEmplace` | 2 calls of up to 3 arguments on two classes: the answer remembered for a class is asked for twice, or for another class |

`MaxNodes` (and `FewNodes`, the one that `Visitors` hands on), `MaxDirectives`,
`MaxDecls`, `MaxLength`, `MaxArgs` and `MaxCalls` are the only bounds; they appear
in guards and in no property.  `IndexValues` is no bound but the code's 256, the
number of values of a `uint8_t`; no signature here is long enough to wrap.  With
`IndexValues = 2`, TLC finds both properties of `ForRangeConst`'s reports kept for two
parameters, and `ConstablesAreUnmodified` violated for three of which the last is
templated: the counter is back at the first index and takes it for another.

Fairness: only `PendingCallsAreReported` needs it, and only of `Leave`:
`RecursiveASTVisitor` leaves every node that it enters, since an AST is finite.
Nothing else is assumed to happen.

### Where the code and its documentation part

Each of the following runs checks one statement of the documentation, and TLC
finds the shortest traversal that contradicts it.

| Run | What happens |
|---|---|
| `find_emplace_lifetime` | `if (auto it = m.find(k); ...) {}  m.emplace(k, v);` — the iterator is filed under the block around the `if` and matched when it no longer exists. |
| `bad_rand_leak` | After a constructor's body `m_comp_stmt_stack` still ends with it; the next block pops it instead of itself, and an engine declared afterwards belongs to a block that has ended. |
| `miscellaneous_method` | A local of an ordinary method is reported at the end of the next constructor. |
| `lock_guard_release_overwrite` | `m = a.release(); m = b.release(); m->unlock();` — the first mutex stays locked. |
| `const_param_increment` | `void f(int & n) { ++n; }` — `n` is said to be const-able: `VisitUnaryOperator`, which would take it out, is not among the methods that `UnitedVisitor` dispatches. |
| `emplace_fix_it` | `m.emplace(k, V());` becomes `m.try_emplace();` — the result of `getCharacterData()`'s second parameter is read the wrong way round, and the key is removed with the value. |

Other places where the code does less or more than a reader of `Checks.md` or of
a message may expect.  The modules behave as the code does; no run is spent on
them:

| Source | What happens |
|---|---|
| `BadRandVisitor.cpp:77`, `:120` | An engine that is moved from, or used in a loop, in a macro or on a NOLINT line only is reported as one-shot: what is skipped is no use. |
| `BadRandVisitor.cpp:205` | `struct S { S() = default; };`, if the compiler has written the body: it stays on `m_ctor_body_stack`, and no engine declared later in the unit is reported. |
| `LockGuardReleaseVisitor.cpp:18` | `m = l.release(); m->unlock();` with the `unlock()` in a macro or on a NOLINT line: the mutex is reported as not unlocked. |
| `ReturnValueVisitor.cpp:64` | `T f() { if (b) return g(); /* NOLINT */ return *this; }` is said to return a copy of `*this` always. |
| `BadRandVisitor.cpp:196` | `std::mt19937 e(a.size() + device());` — the member call resets `m_is_defining_seed`, and the device is reported as slow. |
| `ReturnValueVisitor.cpp:69` | `T f() { auto g = [] { return; }; ... }` — the null value of the lambda's return is passed to `dyn_cast` (`crashed`). |
| `InitMembersVisitor.cpp:88` | A constructor of a class that is local to a constructor ends the collection of the outer one. |
| `InitMembersVisitor.cpp:143` | `C() { const std::string n = f(); m_n = n; }` is reported, although no initialiser can name `n`: `forEachDescendant` looks at the parts of the right-hand side only, and there is no cast around `n`. |
| `MiscellaneousVisitor.cpp:51` | `C() { struct D { D(); }; T t; m_t = t; }` — the declaration of `D` is pushed and never popped. |
| `MiscellaneousVisitor.cpp:118` | A static local in a block that is skipped counts as a global. |
| `MoveStringStreamVisitor.cpp:97` | `while (...) { use(ss.str()); }` — the last reference in the source is not the last use. |
| `MoveStringStreamVisitor.cpp:36` | `ss.str(); ss.str();` — the first call is remembered, the second is the last. |
| `LockGuardReleaseVisitor.cpp:92` | `return lock.release();` is reported as unused. |
| `ImproperMoveVisitor.cpp:109` | `void f(const T & t) { g(std::move(t)); }` is reported as a move from a non-const lvalue: the reference type itself is never const.  `Checks.md:165` ("move from non-const lvalue"), the message at line 55 and the name of the field say otherwise; `OwnMovesAreExact` says nothing of const lvalues. |
| `ImproperMoveVisitor.cpp:223` | `auto g = [](T & t) { return std::move(t); };` at namespace scope — `back()` of an empty vector (`undefined`). |
| `ImproperMoveVisitor.cpp:90` | `template <class T> void f(T t, const int && n);` — `n` is taken for templated. |
| `ImproperMoveVisitor.cpp:148` | Any cast around the call counts as the cast of its result. |
| `EraseInLoopVisitor.cpp:182` | `for (...; ++it) { int n = (m.erase(it), 1); break; }` — the parent of the call is not the block, and the `break` is not seen. |
| `ReturnValueVisitor.cpp:80` | `T f() { auto g = [] { return 1; }; return *this; }` — the lambda's return counts as `f`'s. |
| `ImproperMoveVisitor.cpp:121` | After a nested function the outer one's parameters are looked up in the wrong list. |
| `ForRangeConstVisitor.cpp:521` | `auto & r = v; r = 0;` — the initialiser takes `v` out before `r` can be followed as an alias; the code for aliases has no effect. |
| `ForRangeConstVisitor.cpp:68` | A defaulted function whose body the compiler has written is pushed and never popped: when it is a member of a local class, the returns of the function around it are judged by its return type. |
| `ForRangeConstVisitor.cpp:378` | A return in a lambda is judged by the return type of the function around it. |
| `RemoveCStrVisitor.cpp:86` | After a local class's method the last one visited is not that around the call, and a call is passed over or reported by the wrong one. |
| `RemoveCStrVisitor.cpp:57` | The number of parameters is compared with itself; the names of the methods are not compared at all. |
| `RemoveCStrVisitor.cpp:60` | `void clear() { set(s.c_str()); }` — a method without parameters has none that differs from the overload's, and every such call in it is passed over. |
| `ForRangeConstVisitor.cpp:184` | With more than 256 parameters the indices of a template repeat, and a templated parameter can be taken for one that is not. |
| `NoexceptVisitor.cpp:96` | An operator in a template that is not resolved yet has no callee, and null is passed to `dyn_cast` (`crashed`). |
| `NoexceptVisitor.cpp:163` | The body of a function-try-block is searched like any other; initialisers of a constructor are not searched. |
| `EmplaceDefaultValueVisitor.cpp:29` | For `emplace_hint` the number of arguments is not compared with 3; with one argument the fix-it looks at argument -1. |
| `Common.cpp:304` | `res.is_iter &= ...` starts from `false`, so that a class is never taken for an iterator by its members. |
| `InlineMethodsInClassBodyVisitor.cpp:59` | `always_inline` in the text before a method counts as `inline`. |
| `InlineMethodsInClassBodyVisitor.cpp:80` | The fix-it inserts `inline` without a space. |
| `CTypeCharVisitor.cpp:112` | `isalpha(p->c)`: the cast is inserted at `getExprLoc()`, in front of the name of the member. |
| `Common.h:58` | Only the first `NOLINT` on the line where a node begins is looked at. |

## 4. Proofs

TLAPS proves for every value of the constants, under the named assumptions of
the modules:

* **`ChecksProofs`**.  `ConfigTypeCorrect` is inductive as it stands.
  `LastMentionAlwaysWins` is not: that the *map* holds the levels of the *log*
  needs the strengthening `LogIsReplayed`, which says of every name that it is in
  `m_checks` exactly if it was mentioned, with the level of its last mention, and
  the same of `m_all`.  `NewNameIsLast` and `OtherNameKept` say how one more
  directive changes what is last.
* **`PluginProofs`**.  The invariant adds to the type that `m_enabled` is what
  `computeEnabled` says of the final configuration (`EnabledAsComputed`) and that
  the unit's visitors have printed when it is done (`UnitIsPrinted`).
  `OnlyAskedVisitorsEverRun` and `AskedVisitorsAlwaysPrint` compare the enabled
  visitors with the *log* of the command line: `EnabledIsAsked` gets that from
  `LogIsReplayed` above and from the uniqueness of a last mention.
* **`FindEmplaceProofs`**.  The inductive invariant is
  `TypeOK /\ PendingCallsAreFound`.  A pending call stays found because a block
  can only leave the chain when it ends, and then nothing is pending any more.
  `ChainGrows` says that entering a block only adds to the chain; the chain is
  defined as a least closed set, so that no induction is needed.
  `ReportsAreAlwaysSound` adds that the numbers of all calls that wait or are
  reported are below the next one and that no two that wait are equal (`SInv`),
  so that a block that ends reports calls that were never reported.
  The module also proves that the visitor implements `FindScopes`.  `BlocksAreStacked` and the refinement need one invariant, `BInv`: nodes are
  numbered in the order in which they are entered (`OpenIsOrdered`),
  `m_parent_of` leads to lower numbers (`ParentsLeadOut`), and the walk over it
  meets all the open blocks (`ScopesAreChained`) and no other (`ChainIsOpen`).
  So the first block of the walk with an entry for a place is the highest-numbered
  scope with one (`LookupIsNearest`), which is what `FindScopes` promises.  Then
  one lemma per action shows which step of `FindScopes` it is: a block that is
  entered or left is a scope that opens or closes, a control statement is a
  stutter, and so is a call that matches nothing, although its lookup adds empty
  entries to `m_stmt_iterators`.
* **`EraseInLoopProofs`**.  The invariant relates three sequences: `m_parents`
  equals `open`, `m_stack` is the subsequence of loops with a variable, and node
  numbers increase along `open`.  `SearchIsInnermost` then shows that the search
  of `m_stack` finds the innermost loop of `open`, from which
  `ReportsAreAlwaysExact` follows.
* **`VisitorsProofs`** is about the six visitors of `Visitors`, for any AST and any
  number of nodes.  The inductive invariant `VInv` is that of the enabled visitor;
  each of the six is its type invariant, the properties that the run checks, and
  what they lack to be inductive:

  | Invariant | What it adds, and why |
  |---|---|
  | `RVInv` | `RVReturnsAreBooked`: what `always_returns_this` says of each function on the stack is said by its returns so far that are not hidden (`RVSeen`), and a reported function is over; `SelfCopiesAreCopies` speaks of reports only. |
  | `LGInv` | `LGCallsAreSeen`: the calls in the histories are below the next one, the releases thrown away wait in `m_release_unique_shared_lock` unless they are hidden, and before `printDiagnostic` nothing but "bad code" is reported. |
  | `IMInv` | `IMWaitingAreInitializable`: what is true of the reported assignments is true of those in `m_to_report`; with `NothingIsLeftOver` a constructor starts with none. |
  | `MSInv` | The references kept for a stream are exactly its uses that were not hidden, in the order of the source, and its `str()` is one of them (`MSReferencesAreUses`); a stream that was reported is out of scope (`MSReportedIsOver`), because declarations do not overlap (`MSOneDeclaration`). |
  | `MIInv` | No two open nodes are one, although a constructor's definition takes the number that its declaration had (`MINodesAreDistinct`); a count of 1 is left over only after a hidden reference (`MICountsAreHidden`). |
  | `BRInv` | `BRStack`: because a constructor's body is never popped, `m_comp_stmt_stack` is not the stack of open blocks; what holds is that all open blocks are on it, in their order, among blocks that have ended.  `BRCtors`: the same of the bodies that the compiler wrote, on `m_ctor_body_stack`.  `BREngines`: an engine is kept with the block around it, or with one that has ended and will never be reported, and was neither moved from nor used in a loop, but by hidden code. |

  `OneShotsStaySound` is an action property: `BREngines` says of a kept engine
  what it must satisfy when the block ends.  `Pushed` and `Popped` say what
  entering and leaving a node do to `open`, for all six.  Two operators are written
  out instead of taken from the library (`Emplace`, `addAssigned`), because the
  prover does not expand `@@` and `:>`.
* **`FunctionVisitorsProofs`** does the same for the four visitors of
  `FunctionVisitors`, for any signatures, methods, addresses and callees.  Its
  invariant is `FVInv`:

  | Invariant | What it adds, and why |
  |---|---|
  | `NEInv` | Every open function is known by one number (`NEBodiesAreKnown`), and there is always an innermost one around what is open (`NEFunctionsAreOutermost`), so that a statement and the search it belongs to agree on the function. |
  | `RCInv` | `SuggestionsEnd` speaks of calls made in the past, in a function that was then the latest: functions, calls and reports are below the next number (`RCNumbersAreFresh`), so that no later report is taken for an earlier call's, and `m_last_visited_function_decl` is the function with the number `latest` (`RCLastIsKept`). |
  | `IVInv` | `IVParamsAreKnown`: no two parameters share an address, which is what makes the order after `std::sort` strict.  `IVStackIsComplete`: each entry of `m_params_stack` has all the parameters of its function, so that an address that `std::lower_bound` does not find belongs to another one. |
  | `FRInv` | `FRStackInv`: a defaulted function is on `m_function_decl_stack` but never open (`FRDefaultedAreClosed`).  `FRVariablesInv`: what is true of the reported variables is already true of those in `m_checked_vars` (`FRCheckedAreClean`), and a variable without a use is in `m_checked_vars` as long as its scope is open and reported afterwards (`FRUnusedAreKept`). |

  Three results about what the code computes carry these: `IVfindParameter`
  (`std::lower_bound` over sorted parameters returns the one with the address, if
  there is one), `FRFindsSeen` (`addMutRefProducer` and `producesMutRef` reach the
  variable below any number of calls) and `FRRoundTrip` (an instance takes for not
  templated just what its template counted).  They speak of recursive functions on
  numbers; the induction they need is in `VectorLemmas`.

  `ConstablesStayUnmodified` and `UnmodifiedStayReported` assume that no signature has
  more than `IndexValues` parameters, since the code's indices are bytes; section 3
  shows that this is needed.  It is not an assumption of the other theorems, nor of the
  type invariant.
* **`MatchersProofs`** is about the two algorithms of `Matchers`, for expressions of
  any length and calls with any number of arguments, in pieces of any text.  The
  invariant `MatchersInv` is simple: `IDInv` says that an expression is whole at its
  end at the earliest, and `EDInv` that what is remembered of a class is what it
  has, and that just the calls with a default value are reported, each with its own
  text after the fix.  The work is in what follows from it:

  | Result | Argument |
  |---|---|
  | `IDSameIs` | The recursion of `isIdenticalStmt` goes to children, which are behind their parents (`IDChildIsBehind`), so that there is a function that satisfies it. |
  | `IdenticalIsAlwaysSound` | Every node but the first is the child of an earlier one (`IDHasParent`).  Where all nodes before two children were found to be the same, as many expressions are missing in both (`IDMissingAgrees`), and the two children are at one place of the two expressions.  So the sameness of the roots reaches all nodes (`IDAllCompared`). |
  | `IdenticalIsAlwaysComplete` | Expressions that read the same have their children at the same places; from the last node to the first, each is the same as its counterpart. |
  | `FixAlwaysCallsTryEmplace` | The text of a call is the name, a parenthesis, and so on (`EDTextIs`).  The removal begins behind the opening parenthesis, so that the name and the parenthesis are kept (`EDFrontIsKept`, `EDFrontStays`), and ends before the closing one (`EDEndIsKept`); `EDFixIs` puts the two together. |

* **`VectorLemmas`** has the facts on `push_back`, `pop_back` and `back`, and what
  there is of induction: `Least`, `Induct` and `Recursion` derive it from the
  library's theorem that `<` is well-founded on `Nat`, with sets in the place of
  predicates.

The assumptions are those of the modules, on bounds and inputs only:
`TraversalAssumption` and `VisitorsAssumption` (the bounds on nodes are natural
numbers), `FunctionsAssumption`, `EraseInLoopAssumption`, `MatchersAssumption` and the like (a
constant is a set of what it is said to be), and the one on the length of signatures above.

Only model-checked: liveness (`PendingCallsAreReported`), which like `ENABLED` is out
of the prover's reach.  Every other property of a passing run is a theorem.

## 5. Not modelled

* `CTypeCharVisitor` and `InlineMethodsInClassBodyVisitor`: one condition on one
  node and no state.  A model would repeat the condition.
* const-cast-member and the functions of static-keyword in `MiscellaneousVisitor`,
  for the same reason.
* `Common.cpp` and `Common.h` other than `isIdenticalStmt` and `extractDeclRef`:
  tests of one type, name or location.  Their results are attributes of the nodes
  and, for NOLINT and macros, the "hidden" nodes of the visitors' modules.
* `isIdenticalStmt` for statements that are not expressions: it is only called
  with expressions.
* `ImproperMoveVisitor.cpp`: the end of `VisitCallExpr`, after the reports,
  computes a value that nobody reads.
* Template instances across visitors (`UnitedVisitor.h:72`): no document says
  which checks should look at instances, so that there is nothing to judge the
  reports by.
* `DiagnosticsBuilder`: formatting.  Build files and the test driver.

## 6. What could follow

* Longer expressions and paths in the runs, if they get faster.
* The properties of `ForRangeConst` for signatures of more than `IndexValues`
  parameters: which of them stay right when the indices wrap.
