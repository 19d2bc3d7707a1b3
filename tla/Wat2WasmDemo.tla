---------------------------- MODULE Wat2WasmDemo ----------------------------
(***************************************************************************)
(* The wat2wasm demo page (docs/demo/wat2wasm/demo.js): two editors, one   *)
(* with WebAssembly text and one with a script that uses what the text     *)
(* compiles to.  A change compiles, or runs the script, at once when that  *)
(* was last done kCompileMinMS ago or longer, and else from a timer: once  *)
(* the visitor stops, the page must show what belongs to the last change.  *)
(*                                                                         *)
(* Handlers and timers run one at a time, each a function of the page they *)
(* find.  Time is in units of which Wait make kCompileMinMS; the wall clock *)
(* that debounce reads and the monotonic one of the timers advance         *)
(* together.                                                               *)
(***************************************************************************)
EXTENDS Integers, Sequences, SequencesExt, FiniteSets

CONSTANTS
    WatExamples, \* [contents, js]: the list of examples.js
    Compiles,    \* the pairs of a text and a set of features that build
    Boxes,       \* the check boxes of the features
    Checked,     \* those that are checked when the page is opened
    Wait,        \* kCompileMinMS
    MaxLate      \* bound of the model: how late a timer may fire

ASSUME Wat2WasmAssumption ==
    /\ Len(WatExamples) >= 2
    /\ Checked \subseteq Boxes
    /\ <<"", {}>> \notin Compiles
    /\ Wait \in Nat \ {0}
    /\ MaxLate \in Nat

VARIABLE page

Texts == {WatExamples[i].contents : i \in DOMAIN WatExamples}

Scripts == {WatExamples[i].js : i \in DOMAIN WatExamples}

\* A build is known by the text and the features it is made from.
Source(text, boxes) == [wat |-> text, features |-> boxes]

Builds(source) == <<source.wat, source.features>> \in Compiles

\* A source that does not build stands for none.
NoBuild == [wat |-> "", features |-> {}]

Log(script, build) == [js |-> script, build |-> build]

-----------------------------------------------------------------------------
(* compile and run.                                                        *)

Shown(source) == [ok |-> Builds(source), of |-> source]

\* Mutant: a failed compilation leaves the button as it is.
CompileKeepsButton(p) ==
    LET source == Source(p.wat, p.features)
    IN  IF Builds(source)
        THEN [p EXCEPT !.output = Shown(source), !.binaryBuffer = source,
                       !.blobs = (@ \ {p.href}) \cup {source}, !.href = source,
                       !.enabled = TRUE]
        ELSE [p EXCEPT !.output = Shown(source)]

\* The URL of the build before is revoked.  A failed compilation keeps the
\* build and the link, and greys the button.
Compile(p) ==
    LET source == Source(p.wat, p.features)
    IN  IF Builds(source)
        THEN [p EXCEPT !.output = Shown(source), !.binaryBuffer = source,
                       !.blobs = (@ \ {p.href}) \cup {source}, !.href = source,
                       !.enabled = TRUE]
        ELSE [p EXCEPT !.output = Shown(source), !.enabled = FALSE]

Run(p) ==
    [p EXCEPT !.js_log = IF p.binaryBuffer = NoBuild THEN Log("", NoBuild)
                         ELSE Log(p.js, p.binaryBuffer)]

Apply(f, p) == IF f = "compile" THEN Compile(p) ELSE Run(p)

-----------------------------------------------------------------------------
(* debounce.                                                               *)

Debounced == {"compile", "run"}

PendingOf(timers, f) == {i \in DOMAIN timers : timers[i].of = f}

\* setTimeout: the timers are in order, and one comes after those due no later.
SetTimeout(timers, timer) ==
    InsertAt(timers, Cardinality({i \in DOMAIN timers : timers[i].due <= timer.due}) + 1,
             timer)

\* A timer that has fired is not among them.
ClearTimeout(timers, f) ==
    IF PendingOf(timers, f) = {} THEN timers
    ELSE RemoveAt(timers, CHOOSE i \in PendingOf(timers, f) : TRUE)

\* Mutant: a call that comes too early is dropped.
DebounceDropping(f, p) ==
    IF p.since[f] < Wait THEN p
    ELSE Apply(f, [p EXCEPT !.since[f] = 0])

\* Mutant: the timer that has fired is not forgotten.
DebounceKeepingId(f, p) ==
    CASE p.since[f] < Wait /\ p.timeoutId[f] -> p
      [] p.since[f] < Wait /\ ~p.timeoutId[f] ->
            [p EXCEPT !.timeoutId[f] = TRUE,
                      !.timers = SetTimeout(@, [of |-> f, due |-> Wait - p.since[f]])]
      [] OTHER -> Apply(f, [p EXCEPT !.timers = ClearTimeout(@, f), !.since[f] = 0])

\* Mutant: a late timer is not cleared.
DebounceLeavingTimer(f, p) ==
    CASE p.since[f] < Wait /\ p.timeoutId[f] -> p
      [] p.since[f] < Wait /\ ~p.timeoutId[f] ->
            [p EXCEPT !.timeoutId[f] = TRUE,
                      !.timers = SetTimeout(@, [of |-> f, due |-> Wait - p.since[f]])]
      [] OTHER -> Apply(f, [p EXCEPT !.timeoutId[f] = FALSE, !.since[f] = 0])

\* The function debounce returns, called by a handler or by its own timer.
Debounce(f, p) ==
    CASE p.since[f] < Wait /\ p.timeoutId[f] -> p
      [] p.since[f] < Wait /\ ~p.timeoutId[f] ->
            [p EXCEPT !.timeoutId[f] = TRUE,
                      !.timers = SetTimeout(@, [of |-> f, due |-> Wait - p.since[f]])]
      [] OTHER -> Apply(f, [p EXCEPT !.timers = ClearTimeout(@, f),
                                     !.timeoutId[f] = FALSE, !.since[f] = 0])

OnWatChange(p) == Debounce("compile", p)
OnJsChange(p) == Debounce("run", p)

-----------------------------------------------------------------------------
(* Handlers.                                                               *)

\* CodeMirror's setValue runs the editor's change handler.
SetWat(p, text) == OnWatChange([p EXCEPT !.wat = text])
SetJs(p, script) == OnJsChange([p EXCEPT !.js = script])

SetExample(p, i) ==
    LET compiled == OnWatChange(SetWat(p, WatExamples[i].contents))
    IN  OnJsChange(SetJs(compiled, WatExamples[i].js))

\* The second example is selected when the page opens; lastTime is 0, which is
\* longer ago than any wait.
Wat2WasmInit ==
    page = SetExample([wat |-> "", js |-> "", features |-> Checked,
                       since |-> [f \in Debounced |-> Wait],
                       timeoutId |-> [f \in Debounced |-> FALSE], timers |-> << >>,
                       output |-> Shown(NoBuild), binaryBuffer |-> NoBuild,
                       href |-> NoBuild, enabled |-> FALSE, blobs |-> {},
                       js_log |-> Log("", NoBuild)], 2)

EditWat == \E text \in Texts : page' = SetWat(page, text)

EditJs == \E script \in Scripts : page' = SetJs(page, script)

OnFeatureChange ==
    \E box \in Boxes :
        LET checked == IF box \in page.features THEN page.features \ {box}
                       ELSE page.features \cup {box}
        IN  page' = OnWatChange([page EXCEPT !.features = checked])

OnSelectChanged == \E i \in DOMAIN WatExamples : page' = SetExample(page, i)

\* The first timer that is due, if any, calls the debounced function again.
FireTimer ==
    /\ page.timers # << >>
    /\ Head(page.timers).due <= 0
    /\ page' = Debounce(Head(page.timers).of, [page EXCEPT !.timers = Tail(@)])

\* Only what is less than Wait ago or still due tells one time from another.
Tick ==
    /\ page.timers # << >> \/ \E f \in Debounced : page.since[f] < Wait
    /\ page.timers # << >> => Head(page.timers).due > 0 - MaxLate
    /\ page' = [page EXCEPT
            !.since = [f \in Debounced |-> IF @[f] < Wait THEN @[f] + 1 ELSE Wait],
            !.timers = [i \in DOMAIN @ |-> [of |-> @[i].of, due |-> @[i].due - 1]]]

Visitor == EditWat \/ EditJs \/ OnFeatureChange \/ OnSelectChanged

Wat2WasmNext == Visitor \/ FireTimer \/ Tick

-----------------------------------------------------------------------------
(* Whatever text is entered, with whatever features, the page comes to show
   the build of it or its error, unless it is changed again before. *)
OutputFollowsText ==
    \A text \in Texts, boxes \in SUBSET Boxes :
        LET entered == page.wat = text /\ page.features = boxes
        IN  entered ~> (page.output = Shown(Source(text, boxes)) \/ ~entered)

(* Whatever script is entered is run, unless it is changed again before. *)
LogFollowsScript ==
    \A script \in Scripts :
        (page.js = script) ~> (page.js_log.js = script \/ page.js # script)

(* Between two handlers, each debounced function has one timer pending if it
   remembers one and none if it does not, due when the function may be called
   again and no earlier: a timer too many would call it once more, and one too
   early would do nothing, be remembered all the same, and keep the next change
   from setting another. *)
TimersRemembered ==
    \A f \in Debounced :
        LET pending == PendingOf(page.timers, f)
        IN  /\ Cardinality(pending) = (IF page.timeoutId[f] THEN 1 ELSE 0)
            /\ \A i \in pending : IF page.since[f] < Wait
                                  THEN page.timers[i].due = Wait - page.since[f]
                                  ELSE page.timers[i].due <= 0

OffersBuild(p) ==
    /\ p.enabled => /\ p.href = p.binaryBuffer
                    /\ p.output = Shown(p.href)
    /\ p.blobs = {p.href} \ {NoBuild}

(* While the button is not greyed, its link leads to the build whose log is
   shown, which is the one that scripts are run on; and of all the URLs made
   for builds only that of the link is not revoked. *)
DownloadOffersBuild == OffersBuild(page)
=============================================================================
