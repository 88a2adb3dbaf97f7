---------------------------- MODULE SelectorUse ------------------------------
(***************************************************************************)
(* One selector under any sequence of calls, beside a plain account of     *)
(* what it was told: the priority of every key, the keys in the order of   *)
(* their insertion and in the order of their last insertion or update.     *)
(***************************************************************************)
EXTENDS Selectors

CONSTANTS
    UseKinds,           \* selectors to look at
    UsePriorities,      \* priorities given to it
    MaxInserts,         \* bound on calls of Insert
    MaxChanges          \* bound on calls of Update, Delete and Clear

VARIABLES selector, told, changes

selectorVars == <<selector, told, changes>>

Untold == [priority |-> << >>, order |-> << >>, recent |-> << >>, inserts |-> 0]
Drop(seq, k) == SelectSeq(seq, LAMBDA x : x # k)

SelectorInit == selector \in {MakeSelector(u) : u \in UseKinds}
                /\ told = Untold /\ changes = 0

\* Keys are drawn at random by the writers and never used again.
UseInsert(p) ==
    LET k == told.inserts + 1 IN
    /\ told.inserts < MaxInserts
    /\ selector' = SelectorInsert(selector, k, p)
    /\ told' = [priority |-> (k :> p) @@ told.priority,
                order |-> Append(told.order, k),
                recent |-> Append(told.recent, k),
                inserts |-> k]
    /\ UNCHANGED changes

MayChange == changes < MaxChanges /\ changes' = changes + 1

UseUpdate(k, p) ==
    /\ MayChange
    /\ selector' = SelectorUpdate(selector, k, p)
    /\ told' = [told EXCEPT !.priority[k] = p,
                            !.recent = Append(Drop(@, k), k)]

UseDelete(k) ==
    /\ MayChange
    /\ selector' = SelectorDelete(selector, k)
    /\ told' = [told EXCEPT !.priority = Without(@, k),
                            !.order = Drop(@, k),
                            !.recent = Drop(@, k)]

UseClear ==
    /\ MayChange
    /\ selector' = SelectorClear(selector)
    /\ told' = [Untold EXCEPT !.inserts = told.inserts]

SelectorNext ==
    \/ \E p \in UsePriorities : UseInsert(p)
    \/ \E k \in DOMAIN told.priority : UseDelete(k)
    \/ \E k \in DOMAIN told.priority, p \in UsePriorities : UseUpdate(k, p)
    \/ UseClear
=============================================================================
