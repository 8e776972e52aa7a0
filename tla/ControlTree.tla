----------------------------- MODULE ControlTree -----------------------------
(***************************************************************************)
(* Values and statuses of a tree of form controls (packages/forms/src/     *)
(* model): FormControls at the leaves, FormGroups above them, validators   *)
(* that answer at once and asynchronous ones that answer late.             *)
(*                                                                         *)
(* Whenever a control has changed it emits valueChanges and statusChanges, *)
(* and a subscriber may call any operation of any control before the call  *)
(* that emitted goes on.  `todo` is what the calls in progress have left   *)
(* to do, innermost first: "patch", "disable", "enable", "update"          *)
(* (updateValueAndValidity) and "status" (_updateControlsErrors) are calls *)
(* not yet begun, `self` their option onlySelf; "revalue", "above"         *)
(* (_updateAncestors) and "subscribed" are rests of calls; "emit" is a     *)
(* control emitting.  The option emitEvent: false is a subscriber that     *)
(* does nothing.                                                           *)
(*                                                                         *)
(* Validators are functions of the value: Rejects and RejectsLater are the *)
(* values for which they return errors.  Gaps are things an application    *)
(* may do for which the code gives up one of the properties below:         *)
(*   "disabling": a subscriber that calls while disable() is on its way    *)
(*     through the children of a group;                                    *)
(*   "atOnce": one that calls while an asynchronous validator that answers *)
(*     before subscribe() returns is setting its errors.                   *)
(***************************************************************************)
EXTENDS Naturals, Sequences, FiniteSets, Functions, SequencesExt

CONSTANTS
  Leaves, Groups,
  Parent,        \* of each control but the root
  Root,
  Values,        \* of each leaf
  Built,         \* the value of each control as constructed
  Children,      \* `controls` of each group as constructed
  Async,         \* controls that have an asynchronous validator
  Rejects, RejectsLater,
  Calls,         \* operations the application uses
  Gaps,
  MaxCalls       \* bound on its calls

Controls == Leaves \cup Groups

ASSUME ControlTreeAssumption ==
  /\ Leaves \cap Groups = {} /\ Root \in Groups
  /\ Parent \in [Controls \ {Root} -> Groups]
  /\ Children \in [Groups -> Seq(Controls)]
  /\ \A g \in Groups : /\ IsInjective(Children[g])
                       /\ ToSet(Children[g]) = {c \in Controls \ {Root} : Parent[c] = g}
  /\ \A n \in Leaves : Built[n] \in Values[n]
  /\ \A g \in Groups : Built[g] = [c \in ToSet(Children[g]) |-> Built[c]]
  /\ Async \subseteq Controls
  /\ Calls \subseteq {"patch", "disable", "enable", "remove", "add"}
  /\ Gaps \subseteq {"disabling", "atOnce"}
  /\ MaxCalls \in Nat

\* The groups above n: no control is above itself.
Tree == INSTANCE Reach
Ancestors ==
  LET holder == [n \in Controls |-> IF n = Root THEN {} ELSE {Parent[n]}]
  IN [n \in Controls |-> Tree!Reachable({n}, Controls, holder)]

ASSUME NoCycles == \A n \in Controls : n \notin Ancestors[n]

VARIABLES
  controls,  \* of each group, in the order of its keys
  value, status,
  failed,    \* `errors` is not null
  own,       \* _hasOwnPendingAsyncValidator
  open,      \* asynchronous validations that have not answered: control, id and value seen
  sub,       \* id of _asyncValidationSubscription, 0 when there is none or it is closed
  todo, calls

vars == <<controls, value, status, failed, own, open, sub, todo, calls>>

Step(do, n, self) == [do |-> do, n |-> n, self |-> self]

Emit(n) == Step("emit", n, TRUE)

\* `if (this._parent)`.  A control keeps its parent when it is removed.
Up(do, n) == IF n = Root THEN <<>> ELSE <<Step(do, Parent[n], FALSE)>>

UpUnless(self, n) == IF self THEN <<>> ELSE Up("update", n)

Each(do, n) == IF n \in Leaves THEN <<>>
               ELSE [i \in DOMAIN controls[n] |-> Step(do, controls[n][i], TRUE)]

----------------------------------------------------------------------------
(* What a control derives from its own state and its children's.           *)

Enabled(n) == status[n] # "DISABLED"

Kids(n) == IF n \in Leaves THEN {} ELSE ToSet(controls[n])

EnabledKids(n) == {c \in Kids(n) : Enabled(c)}

AllControlsDisabled(n) == /\ EnabledKids(n) = {}
                          /\ Kids(n) # {} \/ ~Enabled(n)

\* _updateValue, for a group that is disabled (`off`) or not.
Reduced(n, off) ==
  IF n \in Leaves THEN value[n]
  ELSE [c \in IF off THEN Kids(n) ELSE EnabledKids(n) |-> value[c]]

KidsAre(st, n) == \E c \in EnabledKids(n) : status[c] = st

\* _calculateStatus, with `errors` and _hasOwnPendingAsyncValidator given.
CalculateStatus(n, errors, pending) ==
  IF AllControlsDisabled(n) THEN "DISABLED"
  ELSE IF errors THEN "INVALID"
  ELSE IF pending \/ KidsAre("PENDING", n) THEN "PENDING"
  ELSE IF KidsAre("INVALID", n) THEN "INVALID" ELSE "VALID"

----------------------------------------------------------------------------
(* As the constructors leave it, which validate every control when its      *)
(* children have been.                                                     *)

Init ==
  /\ controls = Children
  /\ value = [n \in Controls |-> Built[n]]
  /\ failed = [n \in Controls |-> Built[n] \in Rejects[n]]
  /\ status \in [Controls -> {"VALID", "INVALID", "PENDING"}]
  /\ own \in [Controls -> BOOLEAN]
  /\ \A n \in Controls :
       /\ own[n] = (n \in Async /\ CalculateStatus(n, failed[n], FALSE) \in {"VALID", "PENDING"})
       /\ status[n] = CalculateStatus(n, failed[n], own[n])
  /\ open = {[n |-> n, id |-> 1, seen |-> Built[n]] : n \in {m \in Controls : own[m]}}
  /\ sub = [n \in Controls |-> IF own[n] THEN 1 ELSE 0]
  /\ todo = <<>> /\ calls = 0

----------------------------------------------------------------------------
(* updateValueAndValidity.                                                 *)

Begin(do, n, self) == todo # <<>> /\ Head(todo) = Step(do, n, self)

\* It replaces the call that begins by what that call has left to do.
Goes(rest) == todo' = rest \o Tail(todo)

\* Mutant: the previous validation may still answer.
CancelledNothing(n) == open

\* _cancelExistingSubscription
Cancelled(n) == {v \in open : ~(v.n = n /\ v.id = sub[n])}

FreshId(n) == CHOOSE i \in 1..(Cardinality(open) + 1) :
                /\ \A v \in open : v.n = n => v.id # i
                /\ \A j \in 1..(i - 1) : \E v \in open : v.n = n /\ v.id = j

UpdateDisabled(n, self) ==
  /\ Begin("update", n, self) /\ AllControlsDisabled(n)
  /\ status' = [status EXCEPT ![n] = "DISABLED"]
  /\ value' = [value EXCEPT ![n] = Reduced(n, TRUE)]
  /\ Goes(<<Emit(n)>> \o UpUnless(self, n))
  /\ UNCHANGED <<controls, failed, own, open, sub, calls>>

\* An enabled control up to the asynchronous validator: it runs (`run`) if
\* the status allows it.
Update(n, self, run) ==
  LET v == Reduced(n, FALSE)
      errors == v \in Rejects[n]
      st == CalculateStatus(n, errors, FALSE)
  IN /\ Begin("update", n, self) /\ ~AllControlsDisabled(n)
     /\ run = (n \in Async /\ st \in {"VALID", "PENDING"})
     /\ value' = [value EXCEPT ![n] = v]
     /\ status' = [status EXCEPT ![n] = IF run THEN "PENDING" ELSE st]
     /\ UNCHANGED <<controls, calls>>

\* Mutant: the cancelled validation stays pending.
UpdateSyncPending(n, self) ==
  /\ Update(n, self, FALSE)
  /\ failed' = [failed EXCEPT ![n] = Reduced(n, FALSE) \in Rejects[n]]
  /\ open' = Cancelled(n) /\ sub' = [sub EXCEPT ![n] = 0]
  /\ Goes(<<Emit(n)>> \o UpUnless(self, n))
  /\ UNCHANGED own

UpdateSync(n, self) ==
  /\ Update(n, self, FALSE)
  /\ failed' = [failed EXCEPT ![n] = Reduced(n, FALSE) \in Rejects[n]]
  /\ own' = [own EXCEPT ![n] = FALSE]
  /\ open' = Cancelled(n) /\ sub' = [sub EXCEPT ![n] = 0]
  /\ Goes(<<Emit(n)>> \o UpUnless(self, n))

UpdateLater(n, self) ==
  /\ Update(n, self, TRUE)
  /\ failed' = [failed EXCEPT ![n] = FALSE]
  /\ own' = [own EXCEPT ![n] = TRUE]
  /\ open' = Cancelled(n) \cup {[n |-> n, id |-> FreshId(n), seen |-> Reduced(n, FALSE)]}
  /\ sub' = [sub EXCEPT ![n] = FreshId(n)]
  /\ Goes(<<Emit(n)>> \o UpUnless(self, n))

\* The validator answers before subscribe() returns: setErrors comes first.
UpdateAtOnce(n, self) ==
  /\ Update(n, self, TRUE)
  /\ failed' = [failed EXCEPT ![n] = Reduced(n, FALSE) \in RejectsLater[n]]
  /\ own' = [own EXCEPT ![n] = FALSE]
  /\ open' = Cancelled(n) /\ sub' = [sub EXCEPT ![n] = 0]
  /\ Goes(<<Step("status", n, FALSE), Step("subscribed", n, TRUE), Emit(n)>> \o UpUnless(self, n))

\* What subscribe() returned is closed, whatever was subscribed meanwhile.
Subscribed(n) ==
  /\ Begin("subscribed", n, TRUE)
  /\ sub' = [sub EXCEPT ![n] = 0]
  /\ Goes(<<>>)
  /\ UNCHANGED <<controls, value, status, failed, own, open, calls>>

\* Mutant: the parents are not told.
UpdateControlsErrorsAlone(n) ==
  /\ Begin("status", n, FALSE)
  /\ status' = [status EXCEPT ![n] = CalculateStatus(n, failed[n], own[n])]
  /\ Goes(<<Emit(n)>>)
  /\ UNCHANGED <<controls, value, failed, own, open, sub, calls>>

\* _updateControlsErrors: the parents do not validate again.
UpdateControlsErrors(n) ==
  /\ Begin("status", n, FALSE)
  /\ status' = [status EXCEPT ![n] = CalculateStatus(n, failed[n], own[n])]
  /\ Goes(<<Emit(n)>> \o Up("status", n))
  /\ UNCHANGED <<controls, value, failed, own, open, sub, calls>>

----------------------------------------------------------------------------
(* disable, enable and patchValue.                                         *)

\* _forEachChild skips a child that was removed after the loop began.
Skip == /\ todo # <<>>
        /\ LET s == Head(todo)
           IN /\ s.do \in {"disable", "enable", "patch"} /\ s.self
              /\ s.n \notin Kids(Parent[s.n])
        /\ Goes(<<>>)
        /\ UNCHANGED <<controls, value, status, failed, own, open, sub, calls>>

\* _updateValue and _updateAncestors, where they do anything.
AfterChildren(n) == IF n \in Leaves THEN <<>> ELSE <<Step("revalue", n, TRUE)>>

Above(self, n) == IF self THEN <<>> ELSE <<Step("above", n, FALSE)>>

BeginChild(do, n, self) == /\ Begin(do, n, self)
                           /\ self => n \in Kids(Parent[n])

\* Mutant: the ancestors are not updated.
DisableAlone(n, self) ==
  /\ BeginChild("disable", n, self)
  /\ status' = [status EXCEPT ![n] = "DISABLED"]
  /\ failed' = [failed EXCEPT ![n] = FALSE]
  /\ Goes(Each("disable", n) \o AfterChildren(n) \o <<Emit(n)>>)
  /\ UNCHANGED <<controls, value, own, open, sub, calls>>

Disable(n, self) ==
  /\ BeginChild("disable", n, self)
  /\ status' = [status EXCEPT ![n] = "DISABLED"]
  /\ failed' = [failed EXCEPT ![n] = FALSE]
  /\ Goes(Each("disable", n) \o AfterChildren(n) \o <<Emit(n)>> \o Above(self, n))
  /\ UNCHANGED <<controls, value, own, open, sub, calls>>

Revalue(n) ==
  /\ Begin("revalue", n, TRUE)
  /\ value' = [value EXCEPT ![n] = Reduced(n, ~Enabled(n))]
  /\ Goes(<<>>)
  /\ UNCHANGED <<controls, status, failed, own, open, sub, calls>>

Enable(n, self) ==
  /\ BeginChild("enable", n, self)
  /\ status' = [status EXCEPT ![n] = "VALID"]
  /\ Goes(Each("enable", n) \o <<Step("update", n, TRUE)>> \o Above(self, n))
  /\ UNCHANGED <<controls, value, failed, own, open, sub, calls>>

UpdateAncestors(n) ==
  /\ Begin("above", n, FALSE)
  /\ Goes(Up("update", n))
  /\ UNCHANGED <<controls, value, status, failed, own, open, sub, calls>>

\* setValue of a FormControl, patchValue of a FormGroup: the values given to
\* the leaves below it are anything.
Patch(n, self) ==
  /\ BeginChild("patch", n, self)
  /\ IF n \in Leaves
     THEN \E v \in Values[n] : value' = [value EXCEPT ![n] = v]
     ELSE UNCHANGED value
  /\ Goes(Each("patch", n) \o <<Step("update", n, self)>>)
  /\ UNCHANGED <<controls, status, failed, own, open, sub, calls>>

----------------------------------------------------------------------------
(* The application, by itself or as a subscriber.                          *)

Emitted(n) ==
  /\ Begin("emit", n, TRUE)
  /\ Goes(<<>>)
  /\ UNCHANGED <<controls, value, status, failed, own, open, sub, calls>>

LeftToDo(do) == \E i \in DOMAIN todo : todo[i].do = do

\* By itself or as a subscriber; see Gaps.
MayCall ==
  /\ calls < MaxCalls
  /\ todo # <<>> => Head(todo).do = "emit"
  /\ LeftToDo("disable") => "disabling" \in Gaps
  /\ LeftToDo("subscribed") => "atOnce" \in Gaps

Call(do, n) ==
  /\ MayCall /\ do \in Calls \cap {"patch", "disable", "enable"}
  /\ calls' = calls + 1
  /\ todo' = <<Step(do, n, FALSE)>> \o todo
  /\ UNCHANGED <<controls, value, status, failed, own, open, sub>>

RemoveControl(n) ==
  /\ MayCall /\ "remove" \in Calls
  /\ \E i \in DOMAIN controls[Parent[n]] :
       /\ controls[Parent[n]][i] = n
       /\ controls' = [controls EXCEPT ![Parent[n]] = RemoveAt(@, i)]
  /\ calls' = calls + 1
  /\ todo' = Up("update", n) \o todo
  /\ UNCHANGED <<value, status, failed, own, open, sub>>

\* Mutant: registerControl takes a control that is there already.
AddControlAgain(n) ==
  /\ MayCall /\ "add" \in Calls
  /\ controls' = [controls EXCEPT ![Parent[n]] = Append(@, n)]
  /\ calls' = calls + 1
  /\ todo' = Up("update", n) \o todo
  /\ UNCHANGED <<value, status, failed, own, open, sub>>

\* The control comes back as it is, at the end of the keys.
AddControl(n) ==
  /\ MayCall /\ "add" \in Calls
  /\ n \notin Kids(Parent[n])
  /\ controls' = [controls EXCEPT ![Parent[n]] = Append(@, n)]
  /\ calls' = calls + 1
  /\ todo' = Up("update", n) \o todo
  /\ UNCHANGED <<value, status, failed, own, open, sub>>

AtRest == todo = <<>>

\* A validator answers; then setErrors.
Answer ==
  /\ AtRest
  /\ \E v \in open :
       /\ open' = open \ {v}
       /\ sub' = [sub EXCEPT ![v.n] = IF @ = v.id THEN 0 ELSE @]
       /\ own' = [own EXCEPT ![v.n] = FALSE]
       /\ failed' = [failed EXCEPT ![v.n] = v.seen \in RejectsLater[v.n]]
       /\ todo' = <<Step("status", v.n, FALSE)>>
  /\ UNCHANGED <<controls, value, status, calls>>

----------------------------------------------------------------------------

UpdateValueAndValidity(n, self) == \/ UpdateDisabled(n, self) \/ UpdateSync(n, self)
                    \/ UpdateLater(n, self) \/ UpdateAtOnce(n, self)

Proceed(n, self) == \/ UpdateValueAndValidity(n, self) \/ Subscribed(n) \/ UpdateControlsErrors(n)
                    \/ Emitted(n) \/ Disable(n, self) \/ Revalue(n)
                    \/ Enable(n, self) \/ UpdateAncestors(n) \/ Patch(n, self)

System == \/ Skip \/ Answer
          \/ todo # <<>> /\ Proceed(Head(todo).n, Head(todo).self)

Application ==
  \/ \E n \in Controls, do \in {"patch", "disable", "enable"} : Call(do, n)
  \/ \E n \in Controls \ {Root} : RemoveControl(n) \/ AddControl(n)

Next == System \/ Application

Spec == Init /\ [][Next]_vars

\* Calls return and asynchronous validators answer.
FairSpec == Spec /\ WF_vars(System)

----------------------------------------------------------------------------

\* Type correctness, and the orders of the children without repetition.
TypeOK ==
  /\ \A g \in Groups : IsInjective(controls[g]) /\ ToSet(controls[g]) \subseteq ToSet(Children[g])
  /\ \A n \in Leaves : value[n] \in Values[n]
  /\ status \in [Controls -> {"VALID", "INVALID", "PENDING", "DISABLED"}]
  /\ failed \in [Controls -> BOOLEAN] /\ own \in [Controls -> BOOLEAN]
  /\ \A n \in Controls : sub[n] # 0 => \E v \in open : v.n = n /\ v.id = sub[n]
  /\ calls \in 0..MaxCalls

\* When no call is in progress, the status of every control is what
\* _calculateStatus would return now, and its value what _updateValue would
\* (abstract_model.ts:1300, form_group.ts:539): no order of calls from
\* subscribers, late answers and removals leaves a parent behind its children.
ParentsFollow ==
  AtRest => \A n \in Controls : /\ status[n] = CalculateStatus(n, failed[n], own[n])
                                /\ value[n] = Reduced(n, ~Enabled(n))

\* An enabled control that has its verdict has it on its present value: VALID
\* was agreed to by both of its validators, errors are errors of that value
\* (abstract_model.ts:1051).
VerdictIsCurrent ==
  AtRest => \A n \in Controls : Enabled(n) =>
    LET now == value[n] \in Rejects[n]
        later == n \in Async /\ value[n] \in RejectsLater[n]
    IN /\ now => failed[n]
       /\ failed[n] => now \/ later
       /\ status[n] = "VALID" => ~later

\* An enabled control waits for one validation at most, which saw its present
\* value and can be cancelled (abstract_model.ts:1104).
AnswerIsAwaited ==
  AtRest => \A n \in Controls : Enabled(n) =>
    LET mine == {v \in open : v.n = n}
    IN /\ own[n] <=> mine # {}
       /\ \A v \in mine : v.id = sub[n] /\ v.seen = value[n]

\* disable() leaves its control DISABLED, if nobody enables or adds anything
\* (abstract_model.ts:924-927).
DisableDisables ==
  todo # <<>> /\ Head(todo).do = "above" /\ Calls \subseteq {"patch", "disable"}
    => ~Enabled(Head(todo).n)

\* Once the application makes no more calls, no control stays PENDING: the
\* last answer reaches all its ancestors (abstract_model.ts:1094, :1281).
Decided == <>[](AtRest /\ \A n \in Controls : status[n] # "PENDING")

=============================================================================
