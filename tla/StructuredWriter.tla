-------------------------- MODULE StructuredWriter --------------------------
(***************************************************************************)
(* The StructuredWriter (reverb/cc/structured_writer.{h,cc}): it forwards  *)
(* the steps of the client to a ColumnWriter and creates an item whenever  *)
(* the conditions of a pattern are fulfilled.  It runs in the thread of    *)
(* the client.  The ColumnWriter is seen through its interface: a cell is  *)
(* [column, episode, step, value], any Append may fail, and EndEpisode may *)
(* time out.  It often refuses a column that it already has for the step,  *)
(* not when the cell has gone into a complete chunk (chunker.cc:142).      *)
(* CreateItem fails exactly for the tables whose signature does not match. *)
(*                                                                         *)
(* A pattern node is [column, start, stop, step] with None for a field     *)
(* that is not set, a condition is [left, column, cmp, n, eq, inverse].    *)
(*                                                                         *)
(* Bounds: MaxCalls calls of Append that the ColumnWriter takes,           *)
(* MaxEpisodes episodes.                                                   *)
(***************************************************************************)
EXTENDS Integers, SequencesExt

CONSTANTS
    None,
    Configs,            \* the sequence of StructuredWriterConfigs
    Columns,            \* the columns the client writes, 1 .. n
    Values,             \* the values it writes, by column
    SignatureTables,    \* the tables whose signature the items conform to
    MaxCalls,
    MaxEpisodes

-----------------------------------------------------------------------------
(* Configurations *)

HasStart(node) == node.start # None
Stop(node) == IF node.stop = None THEN 0 ELSE node.stop
MaxAge(node) == IF HasStart(node) THEN -node.start ELSE -Stop(node)

ValidateCondition(c) ==
    /\ c.cmp \in {"eq", "ge", "mod_eq"}
    /\ c.cmp = "mod_eq" => c.n > 0 /\ c.eq >= 0
    /\ c.left = "is_end_episode" => c.cmp = "eq" /\ c.n = 1 /\ ~c.inverse

ValidatePatternNode(node) ==
    /\ HasStart(node) \/ node.stop # None
    /\ HasStart(node) => node.start < 0 /\ node.start < Stop(node)
    /\ Stop(node) <= 0
    /\ ~HasStart(node) => Stop(node) < 0 /\ node.step = None
    /\ node.step # None => node.step > 0

ValidateStructuredWriterConfig(c) ==
    /\ c.flat # << >>
    /\ \A i \in DOMAIN c.flat : ValidatePatternNode(c.flat[i])
    /\ \A i \in DOMAIN c.conditions : ValidateCondition(c.conditions[i])
    /\ \E i \in DOMAIN c.conditions :
          /\ c.conditions[i].left = "buffer_length"
          /\ c.conditions[i].cmp = "ge"
          /\ \A j \in DOMAIN c.flat : c.conditions[i].n >= MaxAge(c.flat[j])

\* MaxHistoryLengthPerColumn: how many cells of the column the patterns reach.
MaxHistoryLength(column) ==
    LET ages == {0} \cup
            UNION {{MaxAge(Configs[i].flat[j]) : j \in
                        {k \in DOMAIN Configs[i].flat :
                             Configs[i].flat[k].column = column}}
                   : i \in DOMAIN Configs} \cup
            {1 : i \in {k \in DOMAIN Configs : \E j \in DOMAIN Configs[k].conditions :
                            /\ Configs[k].conditions[j].left = "data"
                            /\ Configs[k].conditions[j].column = column}}
    IN  CHOOSE n \in ages : \A m \in ages : m <= n

-----------------------------------------------------------------------------
VARIABLES
    writer,     \* the members of the class
    worker,     \* none
    client,     \* the thread that appends
    chunker     \* none

\* writer.history: max_column_history_.  writer.columns: columns_, None for a null reference.  last_applied and
\* last_checked are <<episode, step>>.  client.episode, client.step: those of the
\* ColumnWriter; client.made: the items it got.  For the properties,
\* client.history: every step so far, with all the cells it was given, and at_end,
\* the cells it had when EndEpisode was last called; client.repeated: the
\* ColumnWriter has taken a column twice in a step.
Init ==
    /\ writer = [history |-> [c \in Columns |-> MaxHistoryLength(c)],
                 columns |-> [c \in Columns |-> << >>], step_is_open |-> FALSE,
                 states |-> [i \in DOMAIN Configs |->
                                [steps_since_applied |-> 0,
                                 last_applied |-> <<0, -1>>,
                                 last_checked |-> <<0, -1>>]]]
    /\ worker = None /\ chunker = None
    /\ client = [calls |-> 0, episode |-> 1, step |-> 0, repeated |-> FALSE,
                 history |-> << >>, made |-> << >>]

-----------------------------------------------------------------------------
(* Patterns *)

\* GetEpisodeInfo takes the first column that has a cell of this step.
Populated(columns) == {c \in Columns : columns[c] # << >> /\ Last(columns[c]) # None}
GetEpisodeInfo(columns) ==
    LET cell == Last(columns[CHOOSE c \in Populated(columns) : TRUE])
    IN  <<cell.episode, cell.step>>

BufferLength(columns) ==
    LET lengths == {Len(columns[c]) : c \in Columns}
    IN  CHOOSE n \in lengths : \A m \in lengths : m <= n

Compare(condition, left) ==
    condition.inverse #
        (CASE condition.cmp = "eq" -> left = condition.n
           [] condition.cmp = "ge" -> left >= condition.n
           [] condition.cmp = "mod_eq" -> left % condition.n = condition.eq)

\* Mutant: data that is not there yet compares like a zero.
FaultyCheckCondition(columns, current, since, is_end, condition) ==
    LET back == Last(columns[condition.column])
    IN  CASE condition.left = "step_index" -> Compare(condition, current[2])
          [] condition.left = "steps_since_applied" -> Compare(condition, since)
          [] condition.left = "buffer_length" ->
                Compare(condition, BufferLength(columns))
          [] condition.left = "is_end_episode" ->
                Compare(condition, IF is_end THEN 1 ELSE 0)
          [] condition.left = "data" ->
                Compare(condition, IF back = None THEN 0 ELSE back.value)

CheckCondition(columns, current, since, is_end, condition) ==
    LET back == Last(columns[condition.column])
    IN  CASE condition.left = "step_index" -> Compare(condition, current[2])
          [] condition.left = "steps_since_applied" -> Compare(condition, since)
          [] condition.left = "buffer_length" ->
                Compare(condition, BufferLength(columns))
          [] condition.left = "is_end_episode" ->
                Compare(condition, IF is_end THEN 1 ELSE 0)
          [] condition.left = "data" ->
                back # None /\ Compare(condition, back.value)

\* The cells a node selects of a column, oldest first.
SelectCells(node, column) ==
    LET step == IF node.step = None THEN 1 ELSE node.step
        length == IF HasStart(node) THEN Stop(node) - node.start ELSE 1
        offset == Len(column) + (IF HasStart(node) THEN node.start ELSE node.stop)
    IN  [i \in 1 .. (length + step - 1) \div step |->
            column[offset + 1 + (i - 1) * step]]

BuildTrajectory(config, columns) ==
    [i \in DOMAIN config.flat |->
        SelectCells(config.flat[i], columns[config.flat[i].column])]

HasNull(trajectory) == \E i \in DOMAIN trajectory : None \in ToSet(trajectory[i])

\* A config that is not looked at.
Unapplied(i) == [state |-> writer.states[i], items |-> << >>, fails |-> FALSE]

\* The body of the loop in ApplyConfigs for config number i: its state, the item
\* it makes, if any, and whether CreateItem fails.
ApplyConfig(i, columns, is_end) ==
    LET config == Configs[i]
        current == GetEpisodeInfo(columns)
        old == writer.states[i]
        state == IF old.last_checked = current THEN old
                 ELSE [old EXCEPT !.steps_since_applied = @ + 1,
                                  !.last_checked = current]
        item == [config |-> i, trajectory |-> BuildTrajectory(config, columns)]
        fulfilled == \A c \in ToSet(config.conditions) :
            CheckCondition(columns, current, state.steps_since_applied, is_end, c)
    IN  IF old.last_applied = current
        THEN Unapplied(i)
        ELSE IF ~fulfilled \/ HasNull(item.trajectory)
        THEN [state |-> state, items |-> << >>, fails |-> FALSE]
        ELSE IF config.table \notin SignatureTables
        THEN [state |-> state, items |-> << >>, fails |-> TRUE]
        ELSE [state |-> [state EXCEPT !.last_applied = current,
                                      !.steps_since_applied = 0],
              items |-> <<item>>, fails |-> FALSE]

\* The loop, which the first failure ends: the outcome of every config, the
\* configs it comes to, and what they leave.
ApplyConfigs(columns, is_end) ==
    [i \in DOMAIN Configs |->
        IF Populated(columns) = {} THEN Unapplied(i)
        ELSE ApplyConfig(i, columns, is_end)]
Failed(outcome) == \E i \in DOMAIN outcome : outcome[i].fails
Reached(outcome) ==
    {i \in DOMAIN outcome : \A j \in 1 .. i - 1 : ~outcome[j].fails}
StatesAfter(outcome) ==
    [i \in DOMAIN outcome |-> IF i \in Reached(outcome) THEN outcome[i].state
                              ELSE writer.states[i]]
MadeAfter(outcome) ==
    client.made \o FlattenSeq([i \in DOMAIN outcome |->
        IF i \in Reached(outcome) THEN outcome[i].items ELSE << >>])

-----------------------------------------------------------------------------
(* The calls *)

\* Cells that are never used again are let go.
Trimmed(column, history) ==
    IF Len(column) > history THEN Tail(column) ELSE column

\* The column after a call that gave it ref, perhaps None.
Extended(column, ref) ==
    IF ~writer.step_is_open THEN Append(column, ref)
    ELSE IF ref # None THEN [column EXCEPT ![Len(column)] = ref]
    ELSE column

\* The ghost history gets a new step, or more cells for the last one.
Recorded(refs) ==
    IF writer.step_is_open
    THEN [client.history EXCEPT ![Len(client.history)].cells =
             [c \in Columns |-> IF refs[c] = None THEN @[c] ELSE refs[c]]]
    ELSE Append(client.history,
                [cells |-> refs, at_end |-> [c \in Columns |-> None],
                 cleared |-> FALSE])

\* The columns of an open step that have a cell and were given another one.
GivenTwice(refs) ==
    {c \in Columns : /\ writer.step_is_open /\ refs[c] # None
                     /\ Last(writer.columns[c]) # None}

\* AppendInternal: Append finalizes the step, AppendPartial does not.  Columns
\* that no pattern uses are dropped.  An error of the ColumnWriter is returned at
\* once; when it takes a column a second time, the columns before it are updated
\* and nothing else.
AppendInternal(given, finalize_step) ==
    LET Used(c) == c \in DOMAIN given /\ writer.history[c] > 0
        refs == [c \in Columns |->
                    IF ~Used(c) THEN None
                    ELSE [column |-> c, episode |-> client.episode,
                          step |-> client.step, value |-> given[c]]]
        before == {c \in Columns : \A d \in GivenTwice(refs) : c < d}
        taken == [client EXCEPT !.calls = @ + 1,
                                !.step = IF finalize_step THEN @ + 1 ELSE @]
    IN  /\ client.calls < MaxCalls
        /\ \/ UNCHANGED <<writer, client>>
           \/ \E columns \in {FoldSet(LAMBDA c, all : [all EXCEPT ![c] =
                                    Trimmed(Extended(@, refs[c]), writer.history[c])],
                                    writer.columns, before)} :
              \/ /\ GivenTwice(refs) = {}
                 /\ \E outcome \in {ApplyConfigs(columns, FALSE)} :
                    /\ writer' = [writer EXCEPT !.columns = columns,
                                                !.step_is_open = ~finalize_step,
                                                !.states = StatesAfter(outcome)]
                    /\ client' = [taken EXCEPT !.made = MadeAfter(outcome),
                                               !.history = Recorded(refs)]
              \/ /\ GivenTwice(refs) # {}
                 /\ writer' = [writer EXCEPT !.columns = columns]
                 /\ client' = [taken EXCEPT !.repeated = TRUE]
        /\ UNCHANGED <<worker, chunker>>

\* Patterns are applied first.  When one of them fails, or the ColumnWriter then
\* times out, the episode goes on.
EndEpisode(clear_buffers, timeout) ==
    /\ client.episode < MaxEpisodes
    /\ \E outcome \in {ApplyConfigs(writer.columns, TRUE)} :
          LET ended == ~Failed(outcome) /\ ~timeout
              history == IF client.history = << >> THEN << >>
                         ELSE [client.history EXCEPT
                                  ![Len(client.history)].at_end =
                                      Last(client.history).cells,
                                  ![Len(client.history)].cleared =
                                      clear_buffers /\ ended]
          IN  /\ client' = [client EXCEPT
                               !.made = MadeAfter(outcome), !.history = history,
                               !.episode = IF ended THEN @ + 1 ELSE @,
                               !.step = IF ended THEN 0 ELSE @]
              /\ writer' = [writer EXCEPT
                               !.states = StatesAfter(outcome),
                               !.columns = IF clear_buffers /\ ended
                                           THEN [c \in Columns |-> << >>] ELSE @,
                               !.step_is_open = ~ended /\ @]
    /\ UNCHANGED <<worker, chunker>>

\* What a call can give: values for some of the columns.
Steps == UNION {{f \in [S -> UNION {Values[c] : c \in S}] :
                     \A c \in S : f[c] \in Values[c]} : S \in SUBSET Columns}

Next ==
    \/ \E given \in Steps,
          finalize_step \in BOOLEAN : AppendInternal(given, finalize_step)
    \/ \E clear_buffers, timeout \in BOOLEAN : EndEpisode(clear_buffers, timeout)

-----------------------------------------------------------------------------
(* A reference for the items, computed from whole steps and all of them *)

\* The rows of history h since buffers were cleared before step n, up to n.
RowsAt(h, n) ==
    LET cleared == {i \in 1 .. n - 1 : h[i].cleared}
        first == IF cleared = {} THEN 1
                 ELSE 1 + CHOOSE i \in cleared : \A j \in cleared : j <= i
    IN  SubSeq(h, first, n)

Longest == LET lengths == {writer.history[c] : c \in Columns}
           IN  CHOOSE n \in lengths : \A m \in lengths : m <= n

\* The item that config makes of step n of h, since steps after its last one,
\* or None.  A config for the end of an episode sees the step as EndEpisode did.
ItemAt(i, h, n, since) ==
    LET rows == RowsAt(h, n)
        at_end == \E c \in ToSet(Configs[i].conditions) : c.left = "is_end_episode"
        cells == IF at_end THEN h[n].at_end ELSE h[n].cells
        Column(c) == [k \in DOMAIN rows |-> IF k = Len(rows) THEN cells[c]
                                            ELSE rows[k].cells[c]]
        given == {c \in Columns : cells[c] # None}
        step == cells[CHOOSE c \in given : TRUE].step
        Holds(cond) ==
            CASE cond.left = "step_index" -> Compare(cond, step)
              [] cond.left = "steps_since_applied" -> Compare(cond, since)
              [] cond.left = "buffer_length" ->
                    Compare(cond, IF Len(rows) < Longest THEN Len(rows) ELSE Longest)
              [] cond.left = "is_end_episode" -> TRUE
              [] cond.left = "data" ->
                    cond.column \in given /\ Compare(cond, cells[cond.column].value)
        trajectory == [j \in DOMAIN Configs[i].flat |->
                          SelectCells(Configs[i].flat[j],
                                      Column(Configs[i].flat[j].column))]
    IN  IF /\ given # {}
           /\ \A c \in ToSet(Configs[i].conditions) : Holds(c)
        THEN IF HasNull(trajectory) THEN None ELSE trajectory
        ELSE None

Skipped(step) == \A c \in Columns : step.cells[c] = None

\* What config i makes of the history h, step by step.
ItemsOf(i, h) ==
    LET Upto[n \in 0 .. Len(h)] ==
            IF n = 0 THEN [since |-> 0, items |-> << >>]
            ELSE LET acc == Upto[n - 1]
                     item == ItemAt(i, h, n, acc.since + 1)
                 IN  IF Skipped(h[n]) THEN acc
                     ELSE IF item = None THEN [acc EXCEPT !.since = @ + 1]
                     ELSE [since |-> 0, items |-> Append(acc.items, item)]
    IN  Upto[Len(h)].items
=============================================================================
