---------------------------- MODULE SignalsRef ----------------------------
(***************************************************************************)
(* What the reactive graph is for: the value of a computed is the value    *)
(* its computation would return if it, and everything it reads, were       *)
(* evaluated afresh from the present values of the signals.  Evals is that *)
(* reference semantics, written without caches, versions or flags.         *)
(***************************************************************************)
EXTENDS Signals, FiniteSets

ASSUME ComputedFinite == IsFiniteSet(Computed)

\* The j-th operation of user code n of program p, whose operations gave t.
OpAt(p, n, t, j) == Body[p][n][SubSeq(t, 1, j - 1)]

\* What operation o of n gives when V are the values of the producers.
Answer(p, n, V, o) ==
    IF o.op \in {"read", "peek"} THEN V[o.node]
    ELSE IF o.op = "set" /\ n \notin AllowWrites[p] THEN ERRORED
    ELSE DONE

\* The results t of the first operations of n, and the next one's when it runs
\* on V; all of them, and what it returns then.
Longer(p, n, V, t) ==
    LET o == Body[p][n][t] IN
    IF o.op = "return" THEN t ELSE Append(t, Answer(p, n, V, o))

RunOn(p, n, V) ==
    LET run[k \in 0..MaxOps] ==
          IF k = 0 THEN <<>> ELSE Longer(p, n, V, run[k - 1])
    IN  run[MaxOps]

ReturnOn(p, n, V) == Body[p][n][RunOn(p, n, V)].val

\* The values of the producers when s are those of the signals and E are being
\* evaluated; evals[E] are such values.  Reading what is being evaluated throws.
EvalStep(p, s, evals, E) ==
    [x \in Producer |-> IF x \in Signal THEN s[x]
                        ELSE IF x \in E THEN ERRORED
                        ELSE ReturnOn(p, x, evals[E \cup {x}])]

EvalWhile(p, s) ==
    LET evals[E \in SUBSET Computed] == EvalStep(p, s, evals, E) IN evals

Evals == [p \in Program |-> [s \in [Signal -> Value] |-> EvalWhile(p, s)[{}]]]

\* The values that the signals have, and those that the producers should have.
SignalValues == [s \in Signal |-> value[s]]
Eval == Evals[program][SignalValues]

\* A computed the algorithm takes for up to date has its reference value.
FreshIsRight ==
    \A c \in Computed :
        UpToDate(c) /\ value[c] \notin {UNSET, COMPUTING} => value[c] = Eval[c]

\* The glitch-free property of README.md: no user code ever reads, from a
\* signal or a computed, a value other than the one the present signals
\* determine.  A read before the code's own last write is not held to it.
GlitchFree ==
    \A k \in 1..Len(stack) :
        LET f == stack[k]
            step(j) == OpAt(program, f.node, f.trace, j)
        IN  f.at \in {"body", "await"} =>
            \A j \in 1..Len(f.trace) :
                /\ step(j).op \in {"read", "peek"}
                /\ \A m \in j..Len(f.trace) : step(m).op # "set"
                => f.trace[j] = Eval[step(j).node]

\* The program has no cycles: whatever the signals, each computed reads only
\* computeds of lower rank.  And it reads nothing by untracked(), since a value
\* that depends on an untracked read need not follow it.
Grounded(p) ==
    \A s \in [Signal -> Value] : \E rank \in [Computed -> 1..Cardinality(Computed)] :
        \A c \in Computed :
            LET t == RunOn(p, c, Evals[p][s]) IN
            \A j \in 1..Len(t) :
                LET o == OpAt(p, c, t, j) IN
                /\ o.op # "peek"
                /\ o.op = "read" /\ o.node \in Computed => rank[o.node] < rank[c]

\* The producers read in a run of n that gave t, in order.
ReadsOf(n, t) ==
    LET IsRead(o) == o.op = "read"
        reads == SelectSeq([j \in 1..Len(t) |-> OpAt(program, n, t, j)], IsRead)
    IN  [j \in 1..Len(reads) |-> reads[j].node]

\* The last run of w read what a run would read now, and nothing has changed since.
Settled(w) ==
    /\ [j \in 1..Len(deps[w]) |-> deps[w][j].node]
          = ReadsOf(w, RunOn(program, w, Eval))
    /\ \A j \in 1..Len(deps[w]) :
          LET d == deps[w][j] IN
          d.seen = version[d.node] /\ value[d.node] = Eval[d.node]

\* Once the writes stop, every effect that has started and is not destroyed
\* comes to have run on the final values, and stays so.  "Whenever any of these
\* signal values change, the effect runs again" (aio/content/guide/signals.md).
EffectsSettle ==
    \A w \in Watch : <>[](w \in hasRun \ destroyed => Settled(w))

\* The same of the programs whose cleanup functions do not throw.
SoundEffectsSettle == FragileCleanup[program] = {} => EffectsSettle
=============================================================================
