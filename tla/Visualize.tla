------------------------------ MODULE Visualize ------------------------------
(***************************************************************************)
(* The visualize transformation (transform/system/tfm_visualize.c). Whoever *)
(* gets a trace of the set puts it into an entry of the list, one entry for *)
(* rows * cols * plots traces; who puts in the last one signals the thread  *)
(* that draws. The lock is dropped while a trace is fetched from the        *)
(* previous set. Traces are numbered from 0; None is NULL, or no entry.     *)
(***************************************************************************)
EXTENDS Integers, FiniteSets, FiniteSetsExt, Functions

CONSTANTS
    Getters,     \* threads
    Layouts,     \* [rows, cols, plots, order]: what may be drawn
    NTraces,     \* traces of the set
    MaxGets,     \* bound: gets of all threads together
    MaxFaults    \* bound: fetches and copies that fail, gnuplot that does not start

\* What __plot_indices knows: two of the three, one after the other.
Orders == {<<"plots", "rows">>, <<"plots", "cols">>, <<"rows", "plots">>,
           <<"rows", "cols">>, <<"cols", "rows">>, <<"cols", "plots">>}

ASSUME BoundsAssumption == NTraces \in Nat \ {0} /\ MaxGets \in Nat /\ MaxFaults \in Nat
ASSUME GettersAssumption == IsFiniteSet(Getters)

\* A drawing has at least one plot: the index of a trace is divided by their number.
ASSUME LayoutsAssumption ==
    \A l \in Layouts : {l.rows, l.cols, l.plots} \subseteq Nat \ {0} /\ l.order \in Orders

VARIABLES
    layout,      \* viz_args
    entries,     \* list: base -> [count, slots], in the order of their bases
    displayed,   \* currently_displayed
    signals,     \* the semaphore signal
    leaked,      \* lock was left held for ever
    status,      \* of the draw thread: starting, drawing, ending, failed
    close,       \* __tfm_visualize_exit: open, joining, done
    pc, idx,     \* per thread: idle, filling, counting, or wild; the index asked for
    gets, faults,
    drawing,     \* history: the last drawing, cell -> trace, and its base
    doubled,     \* history: two threads filled one slot at once
    unstarted    \* history: gnuplot did not start

history == <<drawing, doubled, unstarted>>
vars == <<layout, entries, displayed, signals, leaked, status, close, pc, idx, gets, faults, history>>

None == -1
Nothing == [base |-> None, shown |-> <<>>]

\* NUMBER_TRACES
Size == layout.rows * layout.cols * layout.plots
Slots == 0 .. Size - 1
Base(i) == Size * (i \div Size)
Has(b) == b \in DOMAIN entries

Fault == faults < MaxFaults /\ faults' = faults + 1

Init ==
    /\ layout \in Layouts
    /\ entries = <<>> /\ displayed = None /\ signals = 0
    /\ leaked = FALSE /\ status = "starting" /\ close = "open"
    /\ pc = [g \in Getters |-> "idle"]
    /\ idx = [g \in Getters |-> None]
    /\ gets = 0 /\ faults = 0
    /\ drawing = Nothing /\ doubled = FALSE /\ unstarted = FALSE

-----------------------------------------------------------------------------
(* __tfm_visualize_fetch *)

\* The end of a get: the trace is copied, and if that fails the lock stays held.
Copy ==
    \/ leaked' = leaked /\ faults' = faults
    \/ Fault /\ leaked' = TRUE

Asks(g, i) ==
    /\ close = "open" /\ ~leaked
    /\ pc[g] = "idle" /\ gets < MaxGets
    /\ gets' = gets + 1
    /\ UNCHANGED <<layout, displayed, signals, status, close, drawing, unstarted>>

Filled(i) == Has(Base(i)) /\ entries[Base(i)].slots[i % Size] # None

GetPresent(g, i) ==
    /\ Asks(g, i) /\ Filled(i)
    /\ Copy
    /\ UNCHANGED <<entries, pc, idx, doubled>>

Displayed(i) == displayed # None /\ i \in displayed .. displayed + Size - 1

\* Not in the list but on the screen: the trace is passed through.
GetThrough(g, i) ==
    /\ Asks(g, i) /\ ~Has(Base(i)) /\ Displayed(i)
    /\ UNCHANGED <<entries, leaked, faults, pc, idx, doubled>>

NewEntry == [count |-> 0, slots |-> [s \in Slots |-> None]]

\* The slot is empty, or there is no entry yet: the trace is fetched without the
\* lock, though another thread may do so already.
GetMissing(g, i) ==
    /\ Asks(g, i) /\ ~Filled(i) /\ (Has(Base(i)) \/ ~Displayed(i))
    /\ entries' = [b \in DOMAIN entries \cup {Base(i)} |-> IF Has(b) THEN entries[b] ELSE NewEntry]
    /\ idx' = [idx EXCEPT ![g] = i]
    /\ pc' = [pc EXCEPT ![g] = "filling"]
    /\ doubled' = (doubled \/ \E h \in Getters : idx[h] = i)
    /\ UNCHANGED <<leaked, faults>>

Moves(g, from, to) ==
    /\ pc[g] = from
    /\ pc' = [pc EXCEPT ![g] = to]
    /\ idx' = [idx EXCEPT ![g] = IF to = "idle" THEN None ELSE @]
    /\ UNCHANGED <<layout, gets, close, status, drawing, doubled, unstarted>>

Fill(g) ==
    /\ Moves(g, "filling", "counting")
    /\ entries' = [entries EXCEPT ![Base(idx[g])].slots[idx[g] % Size] = idx[g]]
    /\ UNCHANGED <<displayed, signals, leaked, faults>>

FillFails(g) ==
    /\ Moves(g, "filling", "idle") /\ Fault
    /\ UNCHANGED <<entries, displayed, signals, leaked>>

MutCompletes(g) == entries[Base(idx[g])].count + 1 = Size - 1

MutCompletesLate(g) == entries[Base(idx[g])].count = Size

Completes(g) == entries[Base(idx[g])].count + 1 = Size

\* The lock is taken again and the trace counted. Who counts the last one
\* signals, or hears that nobody draws any more.
Count(g) ==
    LET b == Base(idx[g])
        heard == Completes(g) /\ status = "failed"
    IN  /\ Moves(g, "counting", "idle") /\ ~leaked
        /\ entries' = [entries EXCEPT ![b].count = @ + 1]
        /\ displayed' = IF Completes(g) /\ ~heard THEN b ELSE displayed
        /\ signals' = IF Completes(g) /\ ~heard THEN signals + 1 ELSE signals
        /\ IF heard THEN UNCHANGED <<leaked, faults>> ELSE Copy

-----------------------------------------------------------------------------
(* __draw_gnuplot_thread *)

unchangedByDraw == <<layout, displayed, close, gets, doubled, leaked>>

DrawStarts ==
    /\ status = "starting"
    /\ status' = "drawing"
    /\ UNCHANGED <<unchangedByDraw, pc, idx, entries, signals, faults, drawing, unstarted>>

\* gnuplot is not there, or the traces do not divide into the samples shown.
DrawFailsToStart ==
    /\ status = "starting" /\ Fault
    /\ status' = "failed" /\ unstarted' = TRUE
    /\ UNCHANGED <<unchangedByDraw, pc, idx, entries, signals, drawing>>

MutPlotIndices(r, c, p) ==
    IF layout.order = <<"rows", "plots">> THEN r * layout.cols + c + layout.cols * p
    ELSE r * layout.cols + c + layout.rows * layout.cols * p

PlotIndices(r, c, p) ==
    LET l == layout
    IN  CASE l.order = <<"plots", "rows">> -> r * (l.cols * l.plots) + c * l.plots + p
          [] l.order = <<"plots", "cols">> -> c * (l.rows * l.plots) + r * l.plots + p
          [] l.order = <<"rows", "plots">> -> r * (l.cols * l.plots) + c + l.cols * p
          [] l.order = <<"rows", "cols">> -> r + c + l.rows * l.cols * p
          [] l.order = <<"cols", "rows">> -> c * l.rows + r + l.rows * l.cols * p
          [] l.order = <<"cols", "plots">> -> c * (l.rows * l.plots) + r + l.rows * p

Plotted == [cell \in (0 .. layout.rows - 1) \X (0 .. layout.cols - 1) \X (0 .. layout.plots - 1) |->
                PlotIndices(cell[1], cell[2], cell[3])]

Full == {b \in DOMAIN entries : entries[b].count = Size}

At(g, b) == idx[g] # None /\ Base(idx[g]) = b

Remove(b) == entries' = Restrict(entries, DOMAIN entries \ {b})

\* No full entry, in spite of the signal. The lock is released before the status says so.
GiveUp == status' = "ending" /\ UNCHANGED <<entries, drawing, pc, idx>>

\* An entry without one of its traces is dropped; a thread that still works on
\* it has nothing left to do but return.
GiveUpOn(b) ==
    /\ status' = "ending" /\ Remove(b)
    /\ pc' = [g \in Getters |-> IF At(g, b) THEN "idle" ELSE pc[g]]
    /\ idx' = [g \in Getters |-> IF At(g, b) THEN None ELSE idx[g]]
    /\ UNCHANGED drawing

\* Once drawn the entry is freed, also under a thread that still works on it.
Show(b) ==
    /\ drawing' = [base |-> b, shown |-> [cell \in DOMAIN Plotted |-> entries[b].slots[Plotted[cell]]]]
    /\ Remove(b)
    /\ pc' = [g \in Getters |-> IF At(g, b) THEN "wild" ELSE pc[g]]
    /\ UNCHANGED <<status, idx>>

DrawEntry(b) ==
    IF \E cell \in DOMAIN Plotted : entries[b].slots[Plotted[cell]] = None THEN GiveUpOn(b) ELSE Show(b)

Draw ==
    /\ status = "drawing" /\ signals > 0 /\ ~leaked
    /\ signals' = signals - 1
    /\ IF Full = {} THEN GiveUp ELSE DrawEntry(Min(Full))
    /\ UNCHANGED <<unchangedByDraw, faults, unstarted>>

\* Without the lock.
DrawEnds ==
    /\ status = "ending"
    /\ status' = "failed"
    /\ UNCHANGED <<unchangedByDraw, pc, idx, entries, signals, faults, drawing, unstarted>>

-----------------------------------------------------------------------------
(* __tfm_visualize_exit joins the draw thread, which ends only by failing. *)

unchangedByExit == <<layout, entries, displayed, signals, leaked, status, pc, idx, gets, faults, history>>

Exit ==
    /\ close = "open" /\ \A g \in Getters : pc[g] = "idle"
    /\ close' = "joining" /\ UNCHANGED unchangedByExit

Joined ==
    /\ close = "joining" /\ status = "failed"
    /\ close' = "done" /\ UNCHANGED unchangedByExit

Get(g) == \E i \in 0 .. NTraces - 1 : GetPresent(g, i) \/ GetThrough(g, i) \/ GetMissing(g, i)

Next ==
    \/ \E g \in Getters : Get(g) \/ Fill(g) \/ FillFails(g) \/ Count(g)
    \/ DrawStarts \/ DrawFailsToStart \/ Draw \/ DrawEnds
    \/ Exit \/ Joined

\* The draw thread runs when it can.
Spec == Init /\ [][Next]_vars /\ WF_vars(DrawStarts) /\ WF_vars(Draw) /\ WF_vars(DrawEnds)

-----------------------------------------------------------------------------
(* Properties *)

\* Every variable has its type, and an entry stands at the base of its block.
TypeOK ==
    /\ layout \in Layouts
    /\ \A b \in DOMAIN entries :
        /\ b \in 0 .. NTraces - 1 /\ Base(b) = b
        /\ entries[b] \in [count : Nat, slots : [Slots -> Nat \cup {None}]]
    /\ displayed \in Nat \cup {None} /\ signals \in Nat
    /\ {leaked, doubled, unstarted} \subseteq BOOLEAN
    /\ status \in {"starting", "drawing", "ending", "failed"} /\ close \in {"open", "joining", "done"}
    /\ pc \in [Getters -> {"idle", "filling", "counting", "wild"}]
    /\ idx \in [Getters -> 0 .. NTraces - 1 \cup {None}]
    /\ gets \in 0 .. MaxGets /\ faults \in 0 .. MaxFaults

\* rows before columns adds the two up instead of counting by columns.
Overlapping == layout.order = <<"rows", "cols">> /\ layout.rows > 1 /\ layout.cols > 1

\* A drawing shows each trace of its block, and each once, even where threads
\* filled a slot twice; but not in a layout that draws two traces as one.
DrawnIsWhole ==
    drawing # Nothing /\ ~Overlapping =>
        /\ Range(drawing.shown) = drawing.base .. drawing.base + Size - 1
        /\ Cardinality(DOMAIN drawing.shown) = Size

\* The draw thread has given up, whether or not the others can see it yet.
Ended == status \in {"ending", "failed"}

\* The draw thread does not give up, and nobody uses an entry that was drawn
\* and freed, unless two threads fetched one trace at once.
OnlyDoublingBreaks ==
    /\ Ended => doubled \/ unstarted
    /\ (\E g \in Getters : pc[g] = "wild") => doubled

\* A block (by its first trace) that is complete is drawn, unless the draw thread ended or a failed
\* copy kept the lock.
FullIsDrawn ==
    \A b \in 0 .. NTraces - 1 : b \in Full ~> (b \notin Full \/ leaked \/ status = "failed")

=============================================================================
