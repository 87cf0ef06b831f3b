---------------------------- MODULE ProofSession ----------------------------
(***************************************************************************)
(* An interactive proof: a MetaMContext (leo3/src/meta/metam.rs), the      *)
(* tactics of leo3/src/meta/tactic.rs, and the tactics and commands that   *)
(* Lean itself elaborates (leo3/src/meta/repl.rs).                         *)
(*                                                                         *)
(* Every function takes &mut MetaMContext, so a call is one step.  What is *)
(* hard is what a call leaves behind when it fails half way: most of them  *)
(* make several trips to the worker, each of which may throw, and the      *)
(* metavariables, the name generator, the local context, the environment   *)
(* and the caller's list of goals are saved in different places.           *)
(*                                                                         *)
(* A metavariable is the number its name was minted with; a term is the    *)
(* set of the metavariables in it; a local context is the number of its    *)
(* hypotheses.  Whether terms typecheck is left to Lean, which may reject  *)
(* anything.                                                               *)
(*                                                                         *)
(* A Meta.State is kept twice: in the context, and in the reference that   *)
(* run_tactic returns for the next run_tactic.  At every call the caller   *)
(* keeps the reference it has or drops it.                                 *)
(***************************************************************************)
EXTENDS Integers, Sequences, FiniteSets, Functions

CONSTANTS
  MaxNames,   \* bound: names minted
  MaxArgs,    \* bound: metavariables one tactic creates
  MaxScope,   \* bound: hypotheses of a local context
  MaxSaved,   \* bound: snapshots taken
  Missing     \* no metavariable, no reference, no environment

ASSUME ProofSessionAssumption ==
  /\ MaxNames \in Nat /\ MaxArgs \in Nat /\ MaxScope \in Nat /\ MaxSaved \in Nat
  /\ Missing \notin Nat

VARIABLES
  session,  \* the MetaMContext
  goals,    \* the goals the caller has left
  ref,      \* the Meta.State reference the caller got from run_tactic, by content
  fetched,  \* the environment the caller got from run_command
  saved,    \* snapshots of the metavariables, each with the goals at that time
  answer,   \* history: the result of the last call, and its goal if that was open
  strayed   \* history: run_tactic went on from a reference that was out of step

sessionVars == <<session, goals, ref, fetched, saved, answer, strayed>>

Names == 0 .. MaxNames - 1
Constants == {"user", "aux"}

Override(f, x, v) == [y \in DOMAIN f \cup {x} |-> IF y = x THEN v ELSE f[y]]

-----------------------------------------------------------------------------
(* Meta.State: the declared metavariables, each with its local context and *)
(* the goal it was created for, and the assigned ones with their terms.    *)

NoMeta == [decl |-> [n \in {} |-> Missing], asg |-> [n \in {} |-> {}]]

Declared(m) == DOMAIN m.decl
Assigned(m) == DOMAIN m.asg
Open(m) == Declared(m) \ Assigned(m)

IsMeta(m) ==
  /\ m = [decl |-> m.decl, asg |-> m.asg]
  /\ m.decl \in [Declared(m) -> [scope : 0 .. MaxScope, parent : Names \cup {Missing}]]
  /\ m.asg \in [Assigned(m) -> SUBSET Names]
  /\ Declared(m) \subseteq Names

Roots(m) == {n \in Declared(m) : m.decl[n].parent = Missing}
Mentioned(m) == Roots(m) \cup UNION {m.asg[n] : n \in Assigned(m)}

\* k metavariables, named from n on, in local context s, created for goal p
Declare(m, n, k, s, p) ==
  [m EXCEPT !.decl = [x \in DOMAIN @ \cup n .. n + k - 1 |->
                        IF x \in DOMAIN @ THEN @[x] ELSE [scope |-> s, parent |-> p]]]

Assign(m, g, t) == [m EXCEPT !.asg = Override(@, g, t)]

Minted(n, k) == [i \in 1 .. k |-> n + i - 1]

-----------------------------------------------------------------------------
(* Trips to the worker.  An outcome is a result ("ok" or "err") and the    *)
(* context it leaves.                                                      *)

SessionInit ==
  /\ session = [meta |-> NoMeta, core |-> [next |-> 0, env |-> {}, error |-> FALSE],
                env |-> {}, lctx |-> 0]
  /\ goals = <<>>
  /\ ref = Missing
  /\ fetched = Missing
  /\ saved = {}
  /\ answer = [res |-> "none", goal |-> Missing]
  /\ strayed = FALSE

\* run: the computation works on copies, and its states are dropped
Run(c) == {[res |-> r, c |-> c] : r \in {"ok", "err"}}

\* run_persistent: the states come back with the result, or not at all
RunPersistent(c, successors) ==
  {[res |-> "err", c |-> c]} \cup {[res |-> "ok", c |-> d] : d \in successors}

\* the ? operator: the outcomes that end the call, and the contexts it goes on with
Failed(outcomes) == {o \in outcomes : o.res = "err"}
Onward(outcomes) == {o.c : o \in outcomes \ Failed(outcomes)}

\* with_local_context: a trip in the local context of goal g
EnterScope(c, g) == [c EXCEPT !.lctx = c.meta.decl[g].scope]

LeaveScopeUnlessErr(outcomes, c) ==
  Failed(outcomes) \cup {[o EXCEPT !.c.lctx = c.lctx] : o \in outcomes \ Failed(outcomes)}

LeaveScope(outcomes, c) == {[o EXCEPT !.c.lctx = c.lctx] : o \in outcomes}

GetMVarDecl(c, g) ==
  IF g \in Declared(c.meta) THEN Run(c) ELSE {o \in Run(c) : o.res # "ok"}

\* MVarId.checkedAssign: it refuses a term that contains the goal, and may refuse
\* any other.  On its way it may unify metavariables of the term with closed terms,
\* which is kept when it answers false (run_persistent) but not when it throws.
Unified(c, u) == [c EXCEPT !.meta.asg = [x \in DOMAIN @ \cup u |-> IF x \in u THEN {} ELSE @[x]]]

CheckedAssign(c, g, t) ==
  LET unified == {Unified(c, u) : u \in SUBSET ((t \cap Open(c.meta)) \ {g})}
  IN {[res |-> "err", c |-> d] : d \in {c} \cup unified}
       \cup {[res |-> "ok", c |-> [d EXCEPT !.meta = Assign(@, g, t)]] :
               d \in IF g \in t THEN {} ELSE unified}

-----------------------------------------------------------------------------
(* Tactics: from a context and a list of goals to outcomes, which also     *)
(* have the list of goals left after a success.                            *)

MaxNew(c) == IF MaxNames - c.core.next < MaxArgs THEN MaxNames - c.core.next ELSE MaxArgs

Leaving(outcomes, gs) == {[res |-> o.res, c |-> o.c, goals |-> gs] : o \in outcomes}
NoGoals(c) == {[res |-> "err", c |-> c, goals |-> <<>>]}

\* get the declaration of the goal, and check a type in its local context
Examine(c, g) ==
  LET found == GetMVarDecl(c, g)
  IN Failed(found) \cup UNION {LeaveScope(Run(EnterScope(d, g)), d) : d \in Onward(found)}

AssignInScope(c, g, t) == LeaveScope(CheckedAssign(EnterScope(c, g), g, t), c)

CloseGoal(c, g, t) ==
  LET examined == Examine(c, g)
  IN Failed(examined) \cup UNION {AssignInScope(d, g, t) : d \in Onward(examined)}

Exact(c, gs, t) == IF gs = <<>> THEN NoGoals(c) ELSE Leaving(CloseGoal(c, Head(gs), t), Tail(gs))
Rfl(c, gs) == IF gs = <<>> THEN NoGoals(c) ELSE Leaving(CloseGoal(c, Head(gs), {}), Tail(gs))

\* a hypothesis that is not accepted is skipped: only the last failure counts
Assumption(c, gs) == IF gs = <<>> THEN NoGoals(c) ELSE Leaving(CloseGoal(c, Head(gs), {}), Tail(gs))

\* MVarId.intro: a goal with one hypothesis more, in which g is closed
Introduced(c, g, s) ==
  LET n == c.core.next
  IN [c EXCEPT !.meta = Assign(Declare(@, n, 1, s, g), g, {n}), !.core.next = n + 1]

IntroGoal(c, g) ==
  RunPersistent(c,
    IF g \notin Open(c.meta) \/ c.core.next = MaxNames THEN {}
    ELSE {Introduced(c, g, s) : s \in {c.meta.decl[g].scope + 1} \cap 0 .. MaxScope})

IntroForgetsRest(c, gs) ==
  IF gs = <<>> THEN NoGoals(c) ELSE Leaving(IntroGoal(c, Head(gs)), <<c.core.next>>)

Intro(c, gs) ==
  IF gs = <<>> THEN NoGoals(c)
  ELSE Leaving(IntroGoal(c, Head(gs)), <<c.core.next>> \o Tail(gs))

\* the loop over the binders has made k metavariables; it is ended by the last
\* binder or by a failure
Peeled(c, g, k) ==
  [c EXCEPT !.meta = Declare(@, c.core.next, k, c.meta.decl[g].scope, g), !.core.next = @ + k]

Peel(c, g) == {[res |-> r, c |-> Peeled(c, g, k)] : r \in {"ok", "err"}, k \in 0 .. MaxNew(c)}

NewGoals(c, d) == Minted(c.core.next, d.core.next - c.core.next)

ApplyGoal(c, g) ==
  LET examined == Examine(c, g)
      peeled == UNION {Peel(d, g) : d \in Onward(examined)}
  IN Failed(examined) \cup Failed(peeled)
       \cup UNION {AssignInScope(d, g, Range(NewGoals(c, d))) : d \in Onward(peeled)}

Apply(c, gs) ==
  IF gs = <<>> THEN NoGoals(c)
  ELSE {[res |-> o.res, c |-> o.c, goals |-> NewGoals(c, o.c) \o Tail(gs)] :
          o \in ApplyGoal(c, Head(gs))}

\* focus: a tactic on the main goal alone
Focus(c, gs) ==
  IF gs = <<>> THEN NoGoals(c)
  ELSE LET main == <<Head(gs)>>
       IN {[res |-> o.res, c |-> o.c, goals |-> o.goals \o Tail(gs)] :
             o \in Apply(c, main) \cup Intro(c, main)}

-----------------------------------------------------------------------------
(* The caller: it keeps a copy of its goals over a call that may fail.     *)

\* the metavariables the next run_tactic of the caller works on
View == IF ref = Missing THEN session.meta ELSE ref

\* the reference is not a copy of what the context has
OutOfStep == ref # Missing /\ ref # session.meta

IfOpen(g) == IF g \in Open(session.meta) THEN g ELSE Missing

RefUnused == ref' \in {ref, Missing} /\ UNCHANGED strayed

Conclude(o) ==
  /\ session' = o.c
  /\ goals' = IF o.res = "ok" THEN o.goals ELSE goals
  /\ answer' = [res |-> o.res, goal |-> IF goals = <<>> THEN Missing ELSE IfOpen(Head(goals))]
  /\ RefUnused
  /\ UNCHANGED <<fetched, saved>>

\* terms the caller may give for a goal: closed, or another goal it has left
Terms(g) == {{}} \cup {{n} : n \in {x \in Range(goals) : x # g}}

ExactMain == \E t \in IF goals = <<>> THEN {{}} ELSE Terms(Head(goals)) :
               \E o \in Exact(session, goals, t) : Conclude(o)
RflMain == \E o \in Rfl(session, goals) : Conclude(o)
AssumptionMain == \E o \in Assumption(session, goals) : Conclude(o)
IntroMain == \E o \in Intro(session, goals) : Conclude(o)
ApplyMain == \E o \in Apply(session, goals) : Conclude(o)
FocusMain == \E o \in Focus(session, goals) : Conclude(o)

\* mk_goal, in the local context that is current
MkGoal ==
  \E o \in RunPersistent(session,
              IF session.core.next = MaxNames THEN {}
              ELSE {[session EXCEPT !.meta = Declare(@, session.core.next, 1, session.lctx, Missing),
                                    !.core.next = @ + 1]}) :
    /\ session' = o.c
    /\ goals' = IF o.res = "ok" THEN Append(goals, session.core.next) ELSE goals
    /\ answer' = [res |-> o.res, goal |-> Missing]
    /\ RefUnused
    /\ UNCHANGED <<fetched, saved>>

\* goal_hypothesis, goal_hyps_and_type, infer_type, check, pp_goal, pp_exprs
Inspect ==
  \E o \in Run(session) :
    /\ session' = o.c
    /\ answer' = [res |-> o.res, goal |-> Missing]
    /\ RefUnused
    /\ UNCHANGED <<goals, fetched, saved>>

-----------------------------------------------------------------------------
(* run_tactic: Lean.Elab.runTactic threads Meta.State and Core.State in    *)
(* place through references.  It may throw after it has changed them, and  *)
(* it may return normally after it has logged an error and closed the goal *)
(* with sorry.                                                             *)

Refine(m, n, k, s, g) == Assign(Declare(m, n, k, s, g), g, n .. n + k - 1)

Elaborations(c, m, g) ==
  LET n == c.core.next
      Result(thrown, error, meta, k) ==
        [thrown |-> thrown, error |-> error, meta |-> meta, new |-> k]
  IN IF g \notin Declared(m) THEN {Result(TRUE, FALSE, m, 0)}
     ELSE IF g \in Assigned(m) THEN {Result(TRUE, FALSE, m, 0), Result(FALSE, FALSE, m, 0)}
     ELSE LET Scopes == m.decl[g].scope .. MaxScope IN
          {Result(FALSE, TRUE, Refine(m, n, 0, 0, g), 0)}
          \cup {Result(thrown, FALSE, Refine(m, n, k, s, g), k) :
                   thrown \in BOOLEAN, k \in 0 .. MaxNew(c), s \in Scopes}
          \cup {Result(TRUE, FALSE, Declare(m, n, k, s, g), k) : k \in 0 .. MaxNew(c), s \in Scopes}

UpdateStates(c, e, aux) ==
  [c EXCEPT !.meta = e.meta,
            !.core = [next |-> @.next + e.new, env |-> @.env \cup aux, error |-> @.error \/ e.error]]

RunTacticUpdatesFirst(i) ==
  LET g == goals[i]
  IN \E e \in Elaborations(session, View, g), aux \in SUBSET {"aux"} :
       LET failed == e.thrown \/ e.error \/ session.core.error IN
       /\ session' = IF e.thrown THEN session ELSE UpdateStates(session, e, aux)
       /\ goals' = IF failed THEN goals
                   ELSE SubSeq(goals, 1, i - 1) \o Minted(session.core.next, e.new)
                        \o SubSeq(goals, i + 1, Len(goals))
       /\ ref' \in IF ~failed THEN {e.meta} ELSE IF ref # Missing THEN {e.meta, Missing} ELSE {Missing}
       /\ answer' = [res |-> IF failed THEN "err" ELSE "ok", goal |-> IfOpen(g)]
       /\ strayed' = (strayed \/ (OutOfStep /\ ~failed))
       /\ UNCHANGED <<fetched, saved>>

RunTactic(i) ==
  LET g == goals[i]
  IN \E e \in Elaborations(session, View, g), aux \in SUBSET {"aux"} :
       LET failed == e.thrown \/ e.error \/ session.core.error IN
       /\ session' = IF failed THEN session ELSE UpdateStates(session, e, aux)
       /\ goals' = IF failed THEN goals
                   ELSE SubSeq(goals, 1, i - 1) \o Minted(session.core.next, e.new)
                        \o SubSeq(goals, i + 1, Len(goals))
       /\ ref' \in IF ~failed THEN {e.meta} ELSE IF ref # Missing THEN {e.meta, Missing} ELSE {Missing}
       /\ answer' = [res |-> IF failed THEN "err" ELSE "ok", goal |-> IfOpen(g)]
       /\ strayed' = (strayed \/ (OutOfStep /\ ~failed))
       /\ UNCHANGED <<fetched, saved>>

-----------------------------------------------------------------------------
(* Commands, and branching from a snapshot.                                *)

\* run_command works on the environment of the context and changes nothing
RunCommand ==
  \E o \in Run(session) :
    /\ session' = o.c
    /\ fetched' = IF o.res = "ok" THEN session.env \cup {"user"} ELSE fetched
    /\ answer' = [res |-> o.res, goal |-> Missing]
    /\ RefUnused
    /\ UNCHANGED <<goals, saved>>

ReplaceEnvOfContext ==
  /\ fetched # Missing
  /\ session' = [session EXCEPT !.env = fetched]
  /\ fetched' = Missing
  /\ answer' = [res |-> "none", goal |-> Missing]
  /\ UNCHANGED <<goals, ref, saved, strayed>>

ReplaceEnv ==
  /\ fetched # Missing
  /\ session' = [session EXCEPT !.env = fetched, !.core.env = fetched]
  /\ fetched' = Missing
  /\ answer' = [res |-> "none", goal |-> Missing]
  /\ UNCHANGED <<goals, ref, saved, strayed>>

\* meta_state_snapshot
Snapshot ==
  /\ Cardinality(saved) < MaxSaved
  /\ saved' = saved \cup {[meta |-> session.meta, goals |-> goals]}
  /\ answer' = [res |-> "none", goal |-> Missing]
  /\ UNCHANGED <<session, goals, ref, fetched, strayed>>

BranchRestartsNames(s) ==
  /\ session' = [session EXCEPT !.meta = s.meta, !.core.next = Cardinality(Declared(s.meta))]
  /\ goals' = s.goals
  /\ ref' = Missing
  /\ answer' = [res |-> "branched", goal |-> Missing]
  /\ UNCHANGED <<fetched, saved, strayed>>

\* replace_meta_state: the name generator of Core.State stays
Branch(s) ==
  /\ session' = [session EXCEPT !.meta = s.meta]
  /\ goals' = s.goals
  /\ ref' = Missing
  /\ answer' = [res |-> "branched", goal |-> Missing]
  /\ UNCHANGED <<fetched, saved, strayed>>

SessionNext ==
  \/ MkGoal \/ Inspect
  \/ ExactMain \/ RflMain \/ AssumptionMain \/ IntroMain \/ ApplyMain \/ FocusMain
  \/ \E i \in DOMAIN goals : RunTactic(i)
  \/ RunCommand \/ ReplaceEnv
  \/ Snapshot \/ \E s \in saved : Branch(s)

SessionSpec == SessionInit /\ [][SessionNext]_sessionVars

-----------------------------------------------------------------------------
(* Properties.  Those of the context say what a caller can rely on that    *)
(* gives run_tactic no reference that is out of step with it.              *)

\* Every variable keeps its type, and only declared metavariables are
\* assigned or on a list of goals (metam.rs, tactic.rs, repl.rs).
SessionTypeOK ==
  /\ strayed \in BOOLEAN
  /\ ~strayed =>
       /\ session = [meta |-> session.meta, core |-> session.core, env |-> session.env,
                     lctx |-> session.lctx]
       /\ session.core \in [next : 0 .. MaxNames, env : SUBSET Constants, error : BOOLEAN]
       /\ session.env \subseteq Constants
       /\ session.lctx \in 0 .. MaxScope
       /\ fetched \in (SUBSET Constants) \cup {Missing}
       /\ answer \in [res : {"none", "ok", "err", "branched"}, goal : Names \cup {Missing}]
       /\ \A b \in {[meta |-> session.meta, goals |-> goals]} \cup saved :
            /\ IsMeta(b.meta) /\ Assigned(b.meta) \subseteq Declared(b.meta)
            /\ b.goals \in Seq(Names) /\ Range(b.goals) \subseteq Declared(b.meta)

\* No goal gets lost: every metavariable a proof still depends on is on the
\* caller's list, so a list that is empty means a complete proof
\* (tactic.rs, is_solved; repl.rs, RunTacticOutcome::goals).
OpenGoalsListed ==
  ~strayed =>
    \A b \in {[meta |-> session.meta, goals |-> goals]} \cup saved :
      Mentioned(b.meta) \ Assigned(b.meta) \subseteq Range(b.goals)

\* No name is minted twice, not even on two branches of a proof: the
\* generator of Core.State is ahead of every metavariable context that the
\* session has or can go back to (metam.rs, replace_meta_state and
\* run_persistent).
NamesAreFresh ==
  ~strayed =>
    \A m \in {session.meta} \cup {s.meta : s \in saved} :
      \A n \in Declared(m) : n < session.core.next

\* A goal that a tactic creates sees the hypotheses of the goal it is for, and
\* a goal of the caller's own has none (tactic.rs, apply; metam.rs,
\* with_local_context and mk_goal).
GoalsSeeHypotheses ==
  ~strayed =>
    \A n \in Declared(session.meta) :
      LET d == session.meta.decl[n]
      IN IF d.parent = Missing THEN d.scope = 0
         ELSE /\ d.parent \in Declared(session.meta)
              /\ session.meta.decl[d.parent].scope <= d.scope

\* A call that fails leaves its goal open in the context and the message log
\* clean, so that the caller can try something else there, whatever it did
\* with references before (tactic.rs, TacticResult::Failure; repl.rs, run_tactic).
FailureLeavesGoalOpen ==
  /\ answer.res = "err" /\ answer.goal # Missing => answer.goal \in Open(session.meta)
  /\ ~session.core.error

\* "The next `run_tactic` call must reuse this ref (it is mutated in place), not
\* rebuild it from the (stale) bare state" (repl.rs:943-944): the goal of a call
\* that failed is open where the next run_tactic looks for it.
FailureLeavesGoalOpenToNext ==
  answer.res = "err" /\ answer.goal \in Declared(View) => answer.goal \in Open(View)

\* What was declared or proved is forgotten only by branching, or when run_tactic
\* takes over a reference that is out of step, and tactics see what commands
\* declared (metam.rs, run_persistent and replace_env; repl.rs, run_tactic).
NothingForgotten ==
  [][ /\ \/ answer'.res = "branched"
         \/ OutOfStep /\ session'.meta = ref'
         \/ /\ Declared(session.meta) \subseteq Declared(session.meta)'
            /\ Assigned(session.meta) \subseteq Assigned(session.meta)'
      /\ session.env \subseteq session'.core.env ]_sessionVars

=============================================================================
