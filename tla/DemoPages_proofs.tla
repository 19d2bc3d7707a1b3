-------------------------- MODULE DemoPages_proofs ---------------------------
(***************************************************************************)
(* What the demo pages show, for any examples, texts, features and files,  *)
(* and however late timers fire.                                           *)
(*                                                                         *)
(* A handler of the wat2wasm page is a chain of functions of the page, so  *)
(* the lemmas follow the chain: each of its links takes a page whose       *)
(* button offers the build to another.                                     *)
(*                                                                         *)
(* The timers follow the same chain.  Of the links only debounce touches   *)
(* them, and it is also called by a timer that is no longer pending, when  *)
(* its function still remembers it.                                        *)
(***************************************************************************)
EXTENDS DemoPages, FiniteSetTheorems, TLAPS

PageFields == {"wat", "js", "features", "since", "timeoutId", "timers", "output",
               "binaryBuffer", "href", "enabled", "blobs", "js_log"}

IsPage(p) == p = [field \in PageFields |-> p[field]]

GoodPage(p) == IsPage(p) /\ OffersBuild(p)

-----------------------------------------------------------------------------
(* compile revokes the URL of the build before and makes the new one that of
   the link, so of a page that offers its build it makes one that does. *)
LEMMA CompileOffersBuild ==
    ASSUME NEW p, GoodPage(p)
    PROVE  GoodPage(Compile(p))
<1> DEFINE source == Source(p.wat, p.features)
<1>1. CASE Builds(source)
  <2>1. source # NoBuild
    <3>1. NoBuild.wat = "" /\ NoBuild.features = {}
      BY DEF NoBuild
    <3> HIDE DEF source
    <3> QED
      BY <1>1, <3>1, Wat2WasmAssumption DEF Builds
  <2>2. p.blobs \ {p.href} = {}
    BY DEF GoodPage, OffersBuild
  <2> QED
    BY <1>1, <2>1, <2>2 DEF GoodPage, IsPage, PageFields, OffersBuild, Compile
<1>2. CASE ~Builds(source)
  BY <1>2 DEF GoodPage, IsPage, PageFields, OffersBuild, Compile
<1> QED
  BY <1>1, <1>2

(* run changes the log of the script and nothing else. *)
LEMMA RunOffersBuild ==
    ASSUME NEW p, GoodPage(p)
    PROVE  GoodPage(Run(p))
BY DEF GoodPage, IsPage, PageFields, OffersBuild, Run

(* A debounced function is called, put off, or left to the timer there is. *)
LEMMA DebounceOffersBuild ==
    ASSUME NEW p, GoodPage(p), NEW f
    PROVE  GoodPage(Debounce(f, p))
<1> DEFINE put_off == [p EXCEPT !.timeoutId[f] = TRUE,
                          !.timers = SetTimeout(@, [of |-> f, due |-> Wait - p.since[f]])]
           called == [p EXCEPT !.timers = ClearTimeout(@, f),
                          !.timeoutId[f] = FALSE, !.since[f] = 0]
<1>1. GoodPage(put_off)
  BY DEF GoodPage, IsPage, PageFields, OffersBuild
<1>2. GoodPage(called)
  BY DEF GoodPage, IsPage, PageFields, OffersBuild
<1>3. GoodPage(Apply(f, called))
  BY <1>2, CompileOffersBuild, RunOffersBuild DEF Apply
<1> QED
  BY <1>1, <1>3 DEF Debounce

(* An editor that is set leaves the build alone, and its handler does the rest. *)
LEMMA SetEditorOffersBuild ==
    ASSUME NEW p, GoodPage(p), NEW new
    PROVE  GoodPage(SetWat(p, new)) /\ GoodPage(SetJs(p, new))
<1>1. GoodPage([p EXCEPT !.wat = new]) /\ GoodPage([p EXCEPT !.js = new])
  BY DEF GoodPage, IsPage, PageFields, OffersBuild
<1> QED
  BY <1>1, DebounceOffersBuild DEF SetWat, SetJs, OnWatChange, OnJsChange

(* setExample sets both editors and calls both functions once more. *)
LEMMA SetExampleOffersBuild ==
    ASSUME NEW p, GoodPage(p), NEW i
    PROVE  GoodPage(SetExample(p, i))
<1> DEFINE compiled == OnWatChange(SetWat(p, WatExamples[i].contents))
<1>1. GoodPage(compiled)
  BY SetEditorOffersBuild, DebounceOffersBuild DEF OnWatChange
<1> QED
  BY <1>1, SetEditorOffersBuild, DebounceOffersBuild DEF SetExample, OnJsChange

(* Before its first example is set the page offers nothing. *)
LEMMA Wat2WasmInitOffersBuild == Wat2WasmInit => GoodPage(page)
<1> DEFINE blank == [wat |-> "", js |-> "", features |-> Checked,
                     since |-> [f \in Debounced |-> Wait],
                     timeoutId |-> [f \in Debounced |-> FALSE], timers |-> << >>,
                     output |-> Shown(NoBuild), binaryBuffer |-> NoBuild,
                     href |-> NoBuild, enabled |-> FALSE, blobs |-> {},
                     js_log |-> Log("", NoBuild)]
<1>1. GoodPage(blank)
  BY DEF GoodPage, IsPage, PageFields, OffersBuild
<1>2. Wat2WasmInit => page = SetExample(blank, 2)
  BY DEF Wat2WasmInit
<1> QED
  BY <1>1, <1>2, SetExampleOffersBuild

(* Every handler and every timer takes such a page to such a page. *)
LEMMA Wat2WasmNextOffersBuild ==
    ASSUME GoodPage(page), Wat2WasmNext
    PROVE  GoodPage(page)'
<1> USE DEF Visitor
<1>1. CASE EditWat
  BY <1>1, SetEditorOffersBuild DEF EditWat
<1>2. CASE EditJs
  BY <1>2, SetEditorOffersBuild DEF EditJs
<1>3. CASE OnFeatureChange
  <2>1. PICK checked : page' = OnWatChange([page EXCEPT !.features = checked])
    BY <1>3 DEF OnFeatureChange
  <2>2. GoodPage([page EXCEPT !.features = checked])
    BY DEF GoodPage, IsPage, PageFields, OffersBuild
  <2> QED
    BY <2>1, <2>2, DebounceOffersBuild DEF OnWatChange
<1>4. CASE OnSelectChanged
  BY <1>4, SetExampleOffersBuild DEF OnSelectChanged
<1>5. CASE FireTimer
  <2>1. GoodPage([page EXCEPT !.timers = Tail(@)])
    BY DEF GoodPage, IsPage, PageFields, OffersBuild
  <2> QED
    BY <1>5, <2>1, DebounceOffersBuild DEF FireTimer
<1>6. CASE Tick
  BY <1>6 DEF Tick, GoodPage, IsPage, PageFields, OffersBuild
<1> QED
  BY <1>1, <1>2, <1>3, <1>4, <1>5, <1>6 DEF Wat2WasmNext

-----------------------------------------------------------------------------
(* Whatever the visitor does, and whenever the timers fire, a button that is
   not greyed offers the build whose log is shown and on which scripts are run,
   and no URL but that of the link is left unrevoked. *)
THEOREM DownloadAlwaysOffersBuild == PagesSpec => []DownloadOffersBuild
<1>1. PagesInit => GoodPage(page)
  BY Wat2WasmInitOffersBuild DEF PagesInit
<1>2. GoodPage(page) /\ [PagesNext]_pagesVars => GoodPage(page)'
  BY Wat2WasmNextOffersBuild DEF PagesNext, On, pagesVars
<1>3. GoodPage(page) => DownloadOffersBuild
  BY DEF GoodPage, DownloadOffersBuild
<1> QED
  BY <1>1, <1>2, <1>3, PTL DEF PagesSpec

-----------------------------------------------------------------------------
ViewerFields == {"fileBuffer", "options", "editor", "reading", "unread"}

IsViewer(v) == v = [field \in ViewerFields |-> v[field]]

(* compile leaves the text of the binary it is given, whatever was there. *)
LEMMA SetBinaryFollowsFile ==
    ASSUME NEW v, IsViewer(v), NEW binary
    PROVE  /\ IsViewer(SetBinary(v, binary)) /\ FollowsFile(SetBinary(v, binary))
           /\ IsViewer(CompileFile(v)) /\ FollowsFile(CompileFile(v))
BY DEF IsViewer, ViewerFields, FollowsFile, SetBinary, CompileFile

(* Whatever the visitor chooses and in whichever order files come in, the text
   is that of the binary the wasm2wat page holds, with the options checked. *)
THEOREM EditorAlwaysFollowsFile == PagesSpec => []EditorFollowsFile
<1> DEFINE Good(v) == IsViewer(v) /\ FollowsFile(v)
<1>1. PagesInit => Good(viewer)
  <2> DEFINE blank == [fileBuffer |-> "null", options |-> OptionBoxes,
                       editor |-> Text("null", {}), reading |-> {}, unread |-> {}]
  <2>1. IsViewer(blank)
    BY DEF IsViewer, ViewerFields
  <2>2. Wasm2WatInit => viewer = SetBinary(blank, WasmExamples[1])
    BY DEF Wasm2WatInit
  <2> QED
    BY <2>1, <2>2, SetBinaryFollowsFile DEF PagesInit
<1>2. Good(viewer) /\ [PagesNext]_pagesVars => Good(viewer)'
  <2> SUFFICES ASSUME Good(viewer), Wasm2WatNext
               PROVE  Good(viewer)'
    BY DEF PagesNext, On, pagesVars
  <2>1. CASE RecompileIfChanged
    <3>1. PICK checked : viewer' = CompileFile([viewer EXCEPT !.options = checked])
      BY <2>1 DEF RecompileIfChanged
    <3>2. IsViewer([viewer EXCEPT !.options = checked])
      BY DEF IsViewer, ViewerFields
    <3> QED
      BY <3>1, <3>2, SetBinaryFollowsFile
  <2>2. CASE OnExampleChanged
    BY <2>2, SetBinaryFollowsFile DEF OnExampleChanged
  <2>3. CASE OnUploadedFile
    BY <2>3 DEF OnUploadedFile, IsViewer, ViewerFields, FollowsFile
  <2>4. ASSUME NEW file \in Files, ReadEnds(file)
        PROVE  Good(viewer)'
    <3>1. IsViewer([viewer EXCEPT !.reading = @ \ {file}])
      BY DEF IsViewer, ViewerFields
    <3>2. CASE OnLoad(file)
      BY <3>1, <3>2, SetBinaryFollowsFile DEF OnLoad
    <3>3. CASE ReadFails(file)
      BY <3>3 DEF ReadFails, IsViewer, ViewerFields, FollowsFile
    <3> QED
      BY <2>4, <3>2, <3>3 DEF ReadEnds
  <2> QED
    BY <2>1, <2>2, <2>3, <2>4 DEF Wasm2WatNext
<1>3. Good(viewer) => EditorFollowsFile
  BY DEF EditorFollowsFile
<1> QED
  BY <1>1, <1>2, <1>3, PTL DEF PagesSpec

-----------------------------------------------------------------------------
(* The timers of the wat2wasm page: what setTimeout and clearTimeout leave
   pending for each function, of a list of timers in any order. *)
Timers == [of : Debounced, due : Int]

\* t is s with x inserted as its element k.
Inserts(s, k, x, t) ==
    /\ Len(t) = Len(s) + 1 /\ t[k] = x
    /\ \A j \in 1..Len(s) : t[IF j < k THEN j ELSE j + 1] = s[j]
    /\ \A j \in 1..Len(t) : j # k =>
          LET i == IF j < k THEN j ELSE j - 1
          IN  i \in 1..Len(s) /\ t[j] = s[i]

LEMMA Inserted ==
    ASSUME NEW S, NEW s \in Seq(S), NEW k \in 1..Len(s) + 1, NEW x \in S,
           NEW t, t = InsertAt(s, k, x)
    PROVE  t \in Seq(S) /\ Inserts(s, k, x, t)
<1> DEFINE a == SubSeq(s, 1, k - 1)
           b == SubSeq(s, k, Len(s))
<1>1. a \in Seq(S) /\ Len(a) = k - 1 /\ \A j \in 1..k - 1 : a[j] = s[j] OBVIOUS
<1>2. b \in Seq(S) /\ Len(b) = Len(s) - k + 1
      /\ \A j \in 1..Len(s) - k + 1 : b[j] = s[j + k - 1]
  OBVIOUS
<1>3. t = a \o <<x>> \o b BY DEF InsertAt
<1> HIDE DEF a, b
<1>4. t \in Seq(S) /\ Len(t) = Len(s) + 1
  <2>1. a \in Seq(S) /\ b \in Seq(S) /\ <<x>> \in Seq(S) BY <1>1, <1>2
  <2>2. a \o <<x>> \in Seq(S) /\ Len(a \o <<x>>) = Len(a) + 1 BY <2>1
  <2>3. t \in Seq(S) /\ Len(t) = Len(a) + 1 + Len(b) BY <1>3, <2>1, <2>2
  <2>4. Len(a) = k - 1 /\ Len(b) = Len(s) - k + 1 BY <1>1, <1>2
  <2> QED BY <2>3, <2>4
<1>5. t[k] = x BY <1>1, <1>2, <1>3
<1>6. \A j \in 1..k - 1 : t[j] = s[j] BY <1>1, <1>2, <1>3
<1>7. \A j \in k + 1..Len(s) + 1 : t[j] = s[j - 1]
  <2>1. \A j \in k + 1..Len(s) + 1 : t[j] = b[j - k] BY <1>1, <1>2, <1>3
  <2> QED BY <1>2, <2>1
<1>8. \A j \in 1..Len(s) : t[IF j < k THEN j ELSE j + 1] = s[j] BY <1>6, <1>7
<1>9. ASSUME NEW j \in 1..Len(t), j # k, NEW i, i = IF j < k THEN j ELSE j - 1
      PROVE  i \in 1..Len(s) /\ t[j] = s[i]
  BY <1>4, <1>6, <1>7, <1>9
<1> QED BY <1>4, <1>5, <1>8, <1>9 DEF Inserts

LEMMA Removed ==
    ASSUME NEW S, NEW s \in Seq(S), NEW k \in 1..Len(s), NEW t, t = RemoveAt(s, k)
    PROVE  /\ t \in Seq(S) /\ Len(t) = Len(s) - 1
           /\ \A j \in 1..Len(s) : j # k =>
                 LET i == IF j < k THEN j ELSE j - 1
                 IN  i \in 1..Len(t) /\ t[i] = s[j]
           /\ \A j \in 1..Len(t) :
                 LET i == IF j < k THEN j ELSE j + 1
                 IN  i \in 1..Len(s) /\ i # k /\ t[j] = s[i]
<1> DEFINE a == SubSeq(s, 1, k - 1)
           b == SubSeq(s, k + 1, Len(s))
<1>1. a \in Seq(S) /\ Len(a) = k - 1 /\ \A j \in 1..k - 1 : a[j] = s[j] OBVIOUS
<1>2. b \in Seq(S) /\ Len(b) = Len(s) - k /\ \A j \in 1..Len(s) - k : b[j] = s[j + k]
  OBVIOUS
<1>3. t = a \o b BY DEF RemoveAt
<1> HIDE DEF a, b
<1>4. t \in Seq(S) /\ Len(t) = Len(s) - 1
  <2>1. a \in Seq(S) /\ b \in Seq(S) BY <1>1, <1>2
  <2>2. t \in Seq(S) /\ Len(t) = Len(a) + Len(b) BY <1>3, <2>1
  <2>3. Len(a) = k - 1 /\ Len(b) = Len(s) - k BY <1>1, <1>2
  <2> QED BY <2>2, <2>3
<1>5. \A j \in 1..k - 1 : t[j] = s[j] BY <1>1, <1>2, <1>3
<1>6. \A j \in k..Len(s) - 1 : t[j] = s[j + 1] BY <1>1, <1>2, <1>3
<1>7. ASSUME NEW j \in 1..Len(s), j # k, NEW i, i = IF j < k THEN j ELSE j - 1
      PROVE  i \in 1..Len(t) /\ t[i] = s[j]
  BY <1>4, <1>5, <1>6, <1>7
<1>8. ASSUME NEW j \in 1..Len(t), NEW i, i = IF j < k THEN j ELSE j + 1
      PROVE  i \in 1..Len(s) /\ i # k /\ t[j] = s[i]
  BY <1>4, <1>5, <1>6, <1>8
<1> QED BY <1>4, <1>7, <1>8

(* A timer is due when its function may be called again. *)
DueInTime(due, since) == IF since < Wait THEN due = Wait - since ELSE due <= 0

NoTimer(timers, f) == \A i \in 1..Len(timers) : timers[i].of # f

OneTimer(timers, f, since) ==
    \E i \in 1..Len(timers) :
        /\ timers[i].of = f
        /\ DueInTime(timers[i].due, since)
        /\ \A j \in 1..Len(timers) : timers[j].of = f => j = i

(* What is pending for g is pending still. *)
SamePending(ts, t, g) ==
    /\ NoTimer(ts, g) => NoTimer(t, g)
    /\ \A since : OneTimer(ts, g, since) => OneTimer(t, g, since)

LEMMA TimerSet ==
    ASSUME NEW ts \in Seq(Timers), NEW timer \in Timers, NEW t, t = SetTimeout(ts, timer)
    PROVE  /\ t \in Seq(Timers)
           /\ NoTimer(ts, timer.of) =>
                 \A since : DueInTime(timer.due, since) => OneTimer(t, timer.of, since)
           /\ \A g : g # timer.of => SamePending(ts, t, g)
<1> DEFINE early == {i \in DOMAIN ts : ts[i].due <= timer.due}
           k == Cardinality(early) + 1
<1>1. k \in 1..Len(ts) + 1
  <2>1. DOMAIN ts = 1..Len(ts) /\ Len(ts) \in Nat OBVIOUS
  <2>2. IsFiniteSet(1..Len(ts)) /\ Cardinality(1..Len(ts)) = Len(ts)
    BY <2>1, FS_Interval
  <2>3. early \in SUBSET (1..Len(ts)) BY <2>1
  <2> HIDE DEF early
  <2>4. IsFiniteSet(early) /\ Cardinality(early) <= Len(ts) BY <2>2, <2>3, FS_Subset
  <2>5. Cardinality(early) \in Nat BY <2>4, FS_CardinalityType
  <2> QED BY <2>1, <2>4, <2>5
<1>2. t = InsertAt(ts, k, timer) BY DEF SetTimeout
<1> HIDE DEF k
<1>3. /\ t \in Seq(Timers) /\ Len(t) = Len(ts) + 1 /\ t[k] = timer
      /\ \A j \in 1..Len(ts) : t[IF j < k THEN j ELSE j + 1] = ts[j]
      /\ \A j \in 1..Len(t) : j # k =>
            LET i == IF j < k THEN j ELSE j - 1
            IN  i \in 1..Len(ts) /\ t[j] = ts[i]
  <2> HIDE DEF Timers
  <2>1. t \in Seq(Timers) /\ Inserts(ts, k, timer, t) BY <1>1, <1>2, Inserted
  <2> QED BY <2>1 DEF Inserts
<1>4. ASSUME NoTimer(ts, timer.of), NEW since, DueInTime(timer.due, since)
      PROVE  OneTimer(t, timer.of, since)
  <2>1. k \in 1..Len(t) BY <1>1, <1>3
  <2>2. \A j \in 1..Len(t) : t[j].of = timer.of => j = k BY <1>3, <1>4 DEF NoTimer
  <2> QED BY <1>3, <1>4, <2>1, <2>2, Zenon DEF OneTimer
<1>5. ASSUME NEW g, g # timer.of PROVE SamePending(ts, t, g)
  <2>1. ASSUME NoTimer(ts, g) PROVE NoTimer(t, g)
    <3>1. ASSUME NEW j \in 1..Len(t) PROVE t[j].of # g
      <4>1. CASE j = k BY <1>3, <1>5, <4>1
      <4>2. CASE j # k BY <1>3, <2>1, <4>2 DEF NoTimer
      <4> QED BY <4>1, <4>2
    <3> QED BY <3>1 DEF NoTimer
  <2>2. ASSUME NEW since, OneTimer(ts, g, since) PROVE OneTimer(t, g, since)
    <3>1. PICK i \in 1..Len(ts) :
             /\ ts[i].of = g /\ DueInTime(ts[i].due, since)
             /\ \A j \in 1..Len(ts) : ts[j].of = g => j = i
      BY <2>2, Zenon DEF OneTimer
    <3> DEFINE q == IF i < k THEN i ELSE i + 1
    <3>2. q \in 1..Len(t) /\ t[q] = ts[i] BY <1>1, <1>3
    <3>3. ASSUME NEW j \in 1..Len(t), t[j].of = g PROVE j = q
      <4>1. j # k BY <1>3, <1>5, <3>3
      <4> DEFINE r == IF j < k THEN j ELSE j - 1
      <4>2. r \in 1..Len(ts) /\ t[j] = ts[r] BY <1>3, <4>1
      <4>3. r = i BY <3>1, <3>3, <4>2
      <4> QED BY <1>1, <4>1, <4>3
    <3> HIDE DEF q
    <3> QED BY <3>1, <3>2, <3>3, Zenon DEF OneTimer
  <2> QED BY <2>1, <2>2 DEF SamePending
<1> QED BY <1>3, <1>4, <1>5

(* Of one timer removed, which was the only one of its function. *)
LEMMA TimerRemoved ==
    ASSUME NEW ts \in Seq(Timers), NEW k \in 1..Len(ts), NEW t, t = RemoveAt(ts, k)
    PROVE  /\ t \in Seq(Timers)
           /\ \A since : OneTimer(ts, ts[k].of, since) => NoTimer(t, ts[k].of)
           /\ \A g : g # ts[k].of => SamePending(ts, t, g)
<1>1. /\ t \in Seq(Timers) /\ Len(t) = Len(ts) - 1
      /\ \A j \in 1..Len(ts) : j # k =>
            LET i == IF j < k THEN j ELSE j - 1
            IN  i \in 1..Len(t) /\ t[i] = ts[j]
      /\ \A j \in 1..Len(t) :
            LET i == IF j < k THEN j ELSE j + 1
            IN  i \in 1..Len(ts) /\ i # k /\ t[j] = ts[i]
  <2> HIDE DEF Timers
  <2> QED BY Removed
<1>2. ASSUME NEW since, OneTimer(ts, ts[k].of, since) PROVE NoTimer(t, ts[k].of)
  <2>1. PICK i \in 1..Len(ts) : \A j \in 1..Len(ts) : ts[j].of = ts[k].of => j = i
    BY <1>2, Zenon DEF OneTimer
  <2>2. k = i BY <2>1
  <2>3. ASSUME NEW j \in 1..Len(t) PROVE t[j].of # ts[k].of
    <3> DEFINE q == IF j < k THEN j ELSE j + 1
    <3>1. q \in 1..Len(ts) /\ q # k /\ t[j] = ts[q] BY <1>1
    <3> HIDE DEF q
    <3> QED BY <2>1, <2>2, <3>1
  <2> QED BY <2>3 DEF NoTimer
<1>3. ASSUME NEW g, g # ts[k].of PROVE SamePending(ts, t, g)
  <2>1. ASSUME NoTimer(ts, g) PROVE NoTimer(t, g) BY <1>1, <2>1 DEF NoTimer
  <2>2. ASSUME NEW since, OneTimer(ts, g, since) PROVE OneTimer(t, g, since)
    <3>1. PICK i \in 1..Len(ts) :
             /\ ts[i].of = g /\ DueInTime(ts[i].due, since)
             /\ \A j \in 1..Len(ts) : ts[j].of = g => j = i
      BY <2>2, Zenon DEF OneTimer
    <3>2. i # k BY <1>3, <3>1
    <3> DEFINE q == IF i < k THEN i ELSE i - 1
    <3>3. q \in 1..Len(t) /\ t[q] = ts[i] BY <1>1, <3>2
    <3>4. ASSUME NEW j \in 1..Len(t), t[j].of = g PROVE j = q
      <4> DEFINE r == IF j < k THEN j ELSE j + 1
      <4>1. r \in 1..Len(ts) /\ t[j] = ts[r] BY <1>1
      <4>2. r = i BY <3>1, <3>4, <4>1
      <4> QED BY <1>1, <4>2
    <3> HIDE DEF q
    <3> QED BY <3>1, <3>3, <3>4, Zenon DEF OneTimer
  <2> QED BY <2>1, <2>2 DEF SamePending
<1> QED BY <1>1, <1>2, <1>3

LEMMA TimerCleared ==
    ASSUME NEW ts \in Seq(Timers), NEW f, NEW t, t = ClearTimeout(ts, f)
    PROVE  /\ t \in Seq(Timers)
           /\ NoTimer(ts, f) \/ (\E since : OneTimer(ts, f, since)) => NoTimer(t, f)
           /\ \A g : g # f => SamePending(ts, t, g)
<1>d. DOMAIN ts = 1..Len(ts) OBVIOUS
<1>1. CASE PendingOf(ts, f) = {}
  <2>1. t = ts BY <1>1 DEF ClearTimeout
  <2>2. NoTimer(ts, f) BY <1>d, <1>1 DEF PendingOf, NoTimer
  <2> QED BY <2>1, <2>2 DEF SamePending
<1>2. CASE PendingOf(ts, f) # {}
  <2> DEFINE k == CHOOSE i \in PendingOf(ts, f) : TRUE
  <2>1. k \in PendingOf(ts, f) BY <1>2
  <2>2. t = RemoveAt(ts, k) BY <1>2 DEF ClearTimeout
  <2> HIDE DEF k
  <2>3. k \in 1..Len(ts) /\ ts[k].of = f BY <1>d, <2>1 DEF PendingOf
  <2>4. /\ t \in Seq(Timers)
        /\ \A since : OneTimer(ts, ts[k].of, since) => NoTimer(t, ts[k].of)
        /\ \A g : g # ts[k].of => SamePending(ts, t, g)
    BY <2>2, <2>3, TimerRemoved
  <2>5. ~NoTimer(ts, f) BY <2>3 DEF NoTimer
  <2> QED BY <2>3, <2>4, <2>5
<1> QED BY <1>1, <1>2

-----------------------------------------------------------------------------
(* The page and its timers. *)
TimedPage(p) ==
    /\ IsPage(p)
    /\ p.since \in [Debounced -> 0..Wait]
    /\ p.timeoutId \in [Debounced -> BOOLEAN]
    /\ p.timers \in Seq(Timers)

Remembers(p, f) ==
    IF p.timeoutId[f] THEN OneTimer(p.timers, f, p.since[f]) ELSE NoTimer(p.timers, f)

GoodTimers(p) == TimedPage(p) /\ \A f \in Debounced : Remembers(p, f)

SameTimes(p, q) ==
    IsPage(q) /\ q.since = p.since /\ q.timeoutId = p.timeoutId /\ q.timers = p.timers

LEMMA SameTimesGood ==
    ASSUME NEW p, NEW q, SameTimes(p, q)
    PROVE  GoodTimers(p) => GoodTimers(q)
BY DEF SameTimes, GoodTimers, TimedPage, Remembers

(* compile and run leave the timers alone. *)
LEMMA ApplySameTimes ==
    ASSUME NEW p, IsPage(p), NEW f
    PROVE  SameTimes(p, Apply(f, p))
<1>1. SameTimes(p, Compile(p))
  <2> DEFINE source == Source(p.wat, p.features)
  <2>1. CASE Builds(source) BY <2>1 DEF Compile, SameTimes, IsPage, PageFields
  <2>2. CASE ~Builds(source) BY <2>2 DEF Compile, SameTimes, IsPage, PageFields
  <2> QED BY <2>1, <2>2
<1>2. SameTimes(p, Run(p)) BY DEF Run, SameTimes, IsPage, PageFields
<1> QED BY <1>1, <1>2 DEF Apply

(* A debounced function, called when its timer has just fired or when it is
   remembered as it should be: it runs with no timer left, or has one. *)
LEMMA DebounceTimers ==
    ASSUME NEW p, TimedPage(p), NEW f \in Debounced,
           \A g \in Debounced : g # f => Remembers(p, g),
           Remembers(p, f) \/ (p.since[f] = Wait /\ NoTimer(p.timers, f))
    PROVE  GoodTimers(Debounce(f, p))
<1>w. Wait \in Nat \ {0} BY Wat2WasmAssumption
<1>t. /\ p.since \in [Debounced -> 0..Wait] /\ p.timeoutId \in [Debounced -> BOOLEAN]
      /\ p.timers \in Seq(Timers) /\ IsPage(p)
  BY DEF TimedPage
<1>0. p.since[f] \in 0..Wait /\ p.timeoutId[f] \in BOOLEAN BY <1>t
<1>1. CASE p.since[f] < Wait /\ p.timeoutId[f]
  <2>1. Debounce(f, p) = p BY <1>1, Zenon DEF Debounce
  <2>2. Remembers(p, f) BY <1>w, <1>0, <1>1
  <2> QED BY <2>1, <2>2 DEF GoodTimers
<1>2. CASE p.since[f] < Wait /\ ~p.timeoutId[f]
  <2> DEFINE timer == [of |-> f, due |-> Wait - p.since[f]]
             ts == SetTimeout(p.timers, timer)
             q == [p EXCEPT !.timeoutId[f] = TRUE, !.timers = ts]
  <2>1. Debounce(f, p) = q BY <1>2, Zenon DEF Debounce
  <2>2. timer \in Timers BY <1>w, <1>0 DEF Timers
  <2>3. timer.of = f /\ timer.due = Wait - p.since[f] OBVIOUS
  <2>4. /\ IsPage(q) /\ q.since = p.since /\ q.timers = ts
        /\ q.timeoutId = [p.timeoutId EXCEPT ![f] = TRUE]
    BY <1>t DEF IsPage, PageFields
  <2> HIDE DEF timer, ts, q
  <2>5. ts = SetTimeout(p.timers, timer) BY DEF ts
  <2>6. /\ ts \in Seq(Timers)
        /\ NoTimer(p.timers, timer.of) =>
              \A since : DueInTime(timer.due, since) => OneTimer(ts, timer.of, since)
        /\ \A g : g # timer.of => SamePending(p.timers, ts, g)
    BY <1>t, <2>2, <2>5, TimerSet
  <2>7. NoTimer(p.timers, f)
    BY <1>w, <1>0, <1>2 DEF Remembers
  <2>8. OneTimer(ts, f, p.since[f])
    <3>1. DueInTime(timer.due, p.since[f]) BY <1>2, <2>3 DEF DueInTime
    <3> QED BY <2>3, <2>6, <2>7, <3>1
  <2>9. TimedPage(q) BY <1>t, <2>4, <2>6 DEF TimedPage
  <2>10. q.timeoutId[f] /\ \A g \in Debounced : g # f => q.timeoutId[g] = p.timeoutId[g]
    BY <1>t, <2>4
  <2>11. ASSUME NEW g \in Debounced PROVE Remembers(q, g)
    <3>1. CASE g = f BY <2>4, <2>8, <2>10, <3>1 DEF Remembers
    <3>2. CASE g # f
      <4>1. SamePending(p.timers, ts, g) BY <2>3, <2>6, <3>2
      <4> QED BY <2>4, <2>10, <3>2, <4>1 DEF Remembers, SamePending
    <3> QED BY <3>1, <3>2
  <2> QED BY <2>1, <2>9, <2>11 DEF GoodTimers
<1>3. CASE ~(p.since[f] < Wait)
  <2> DEFINE ts == ClearTimeout(p.timers, f)
             q == [p EXCEPT !.timers = ts, !.timeoutId[f] = FALSE, !.since[f] = 0]
  <2>1. Debounce(f, p) = Apply(f, q) BY <1>3, Zenon DEF Debounce
  <2>2. /\ IsPage(q) /\ q.timers = ts
        /\ q.since = [p.since EXCEPT ![f] = 0]
        /\ q.timeoutId = [p.timeoutId EXCEPT ![f] = FALSE]
    BY <1>t DEF IsPage, PageFields
  <2> HIDE DEF ts, q
  <2>3. ts = ClearTimeout(p.timers, f) BY DEF ts
  <2>4. /\ ts \in Seq(Timers)
        /\ NoTimer(p.timers, f) \/ (\E since : OneTimer(p.timers, f, since)) => NoTimer(ts, f)
        /\ \A g : g # f => SamePending(p.timers, ts, g)
    BY <1>t, <2>3, TimerCleared
  <2>5. NoTimer(ts, f)
    <3>1. NoTimer(p.timers, f) \/ OneTimer(p.timers, f, p.since[f]) BY DEF Remembers
    <3> QED BY <2>4, <3>1
  <2>6. TimedPage(q)
    <3>1. q.since \in [Debounced -> 0..Wait] BY <1>w, <1>t, <2>2
    <3>2. q.timeoutId \in [Debounced -> BOOLEAN] BY <1>t, <2>2
    <3> QED BY <2>2, <2>4, <3>1, <3>2 DEF TimedPage
  <2>7. /\ ~q.timeoutId[f]
        /\ \A g \in Debounced : g # f => /\ q.timeoutId[g] = p.timeoutId[g]
                                         /\ q.since[g] = p.since[g]
    BY <1>t, <2>2
  <2>8. ASSUME NEW g \in Debounced PROVE Remembers(q, g)
    <3>1. CASE g = f BY <2>2, <2>5, <2>7, <3>1 DEF Remembers
    <3>2. CASE g # f
      <4>1. SamePending(p.timers, ts, g) BY <2>4, <3>2
      <4> QED BY <2>2, <2>7, <3>2, <4>1 DEF Remembers, SamePending
    <3> QED BY <3>1, <3>2
  <2>9. GoodTimers(q) BY <2>6, <2>8 DEF GoodTimers
  <2> QED BY <2>1, <2>2, <2>9, ApplySameTimes, SameTimesGood
<1> QED BY <1>1, <1>2, <1>3

LEMMA DebouncedTimers ==
    ASSUME NEW p, GoodTimers(p), NEW f \in Debounced
    PROVE  GoodTimers(Debounce(f, p))
<1>1. TimedPage(p) /\ \A g \in Debounced : Remembers(p, g) BY DEF GoodTimers
<1> QED BY <1>1, DebounceTimers

LEMMA EditedTimers ==
    ASSUME NEW p, GoodTimers(p), NEW new
    PROVE  GoodTimers(SetWat(p, new)) /\ GoodTimers(SetJs(p, new))
           /\ GoodTimers(OnWatChange(p)) /\ GoodTimers(OnJsChange(p))
           /\ GoodTimers(OnWatChange([p EXCEPT !.features = new]))
<1>1. IsPage(p) BY DEF GoodTimers, TimedPage
<1>2. /\ SameTimes(p, [p EXCEPT !.wat = new]) /\ SameTimes(p, [p EXCEPT !.js = new])
      /\ SameTimes(p, [p EXCEPT !.features = new])
  BY <1>1 DEF SameTimes, IsPage, PageFields
<1>3. /\ GoodTimers([p EXCEPT !.wat = new]) /\ GoodTimers([p EXCEPT !.js = new])
      /\ GoodTimers([p EXCEPT !.features = new])
  BY <1>2, SameTimesGood
<1>4. "compile" \in Debounced /\ "run" \in Debounced BY DEF Debounced
<1> QED BY <1>3, <1>4, DebouncedTimers DEF SetWat, SetJs, OnWatChange, OnJsChange

LEMMA SetExampleTimers ==
    ASSUME NEW p, GoodTimers(p), NEW i
    PROVE  GoodTimers(SetExample(p, i))
<1> DEFINE compiled == OnWatChange(SetWat(p, WatExamples[i].contents))
<1>1. GoodTimers(compiled) BY EditedTimers
<1>2. SetExample(p, i) = OnJsChange(SetJs(compiled, WatExamples[i].js))
  BY Zenon DEF SetExample
<1> HIDE DEF compiled
<1> QED BY <1>1, <1>2, EditedTimers

LEMMA Wat2WasmInitTimers == Wat2WasmInit => GoodTimers(page)
<1> DEFINE blank == [wat |-> "", js |-> "", features |-> Checked,
                     since |-> [f \in Debounced |-> Wait],
                     timeoutId |-> [f \in Debounced |-> FALSE], timers |-> << >>,
                     output |-> Shown(NoBuild), binaryBuffer |-> NoBuild,
                     href |-> NoBuild, enabled |-> FALSE, blobs |-> {},
                     js_log |-> Log("", NoBuild)]
<1>1. /\ IsPage(blank) /\ blank.timers = << >>
      /\ blank.since = [f \in Debounced |-> Wait]
      /\ blank.timeoutId = [f \in Debounced |-> FALSE]
  BY DEF IsPage, PageFields
<1>2. Wat2WasmInit => page = SetExample(blank, 2) BY DEF Wat2WasmInit
<1> HIDE DEF blank
<1>w. Wait \in Nat \ {0} BY Wat2WasmAssumption
<1>3. Wait \in 0..Wait BY <1>w
<1>4. TimedPage(blank)
  <2>1. << >> \in Seq(Timers) OBVIOUS
  <2> QED BY <1>1, <1>3, <2>1 DEF TimedPage
<1>5. \A f \in Debounced : Remembers(blank, f) BY <1>1 DEF Remembers, NoTimer
<1>6. GoodTimers(blank) BY <1>4, <1>5 DEF GoodTimers
<1> QED BY <1>2, <1>6, SetExampleTimers

(* The timer that fires is the only one of its function, which was last called
   long enough ago. *)
LEMMA FireTimerTimers ==
    ASSUME GoodTimers(page), FireTimer
    PROVE  GoodTimers(page')
<1> DEFINE ts == page.timers
           f == Head(ts).of
           t == Tail(ts)
           q == [page EXCEPT !.timers = Tail(@)]
<1>1. page' = Debounce(f, q) BY DEF FireTimer
<1>2. ts # << >> /\ Head(ts).due <= 0 BY DEF FireTimer
<1>3. /\ TimedPage(page) /\ IsPage(page) /\ ts \in Seq(Timers)
      /\ \A g \in Debounced : Remembers(page, g)
  BY DEF GoodTimers, TimedPage
<1>4. /\ IsPage(q) /\ q.timers = t /\ q.since = page.since
      /\ q.timeoutId = page.timeoutId
  BY <1>3 DEF IsPage, PageFields
<1>d. page.timers = ts OBVIOUS
<1> HIDE DEF q, ts
<1>5. Len(ts) \in Nat /\ 1 \in 1..Len(ts) /\ Head(ts) = ts[1] BY <1>2, <1>3
<1>6. t = RemoveAt(ts, 1) BY <1>2, <1>3, <1>5 DEF RemoveAt
<1> HIDE DEF t
<1>7. /\ t \in Seq(Timers)
      /\ \A since : OneTimer(ts, ts[1].of, since) => NoTimer(t, ts[1].of)
      /\ \A g : g # ts[1].of => SamePending(ts, t, g)
  <2> DEFINE k == 1
  <2>1. k \in 1..Len(ts) /\ t = RemoveAt(ts, k) BY <1>5, <1>6
  <2>2. ts[1] = ts[k] OBVIOUS
  <2> HIDE DEF k
  <2> QED BY <1>3, <2>1, <2>2, TimerRemoved
<1>8. ts[1] \in Timers BY <1>3, <1>5
<1>9. f = ts[1].of /\ ts[1].due <= 0 /\ f \in Debounced BY <1>2, <1>5, <1>8 DEF Timers
<1> HIDE DEF f
<1>10. page.since[f] \in 0..Wait /\ Wait \in Nat BY <1>3, <1>9, Wat2WasmAssumption DEF TimedPage
<1>11. OneTimer(ts, f, page.since[f])
  <2>1. ~NoTimer(ts, f) BY <1>5, <1>9 DEF NoTimer
  <2> QED BY <1>d, <1>3, <1>9, <2>1 DEF Remembers
<1>12. NoTimer(t, f) BY <1>7, <1>9, <1>11
<1>13. page.since[f] = Wait
  <2>1. PICK i \in 1..Len(ts) :
           /\ DueInTime(ts[i].due, page.since[f])
           /\ \A j \in 1..Len(ts) : ts[j].of = f => j = i
    BY <1>11, Zenon DEF OneTimer
  <2>2. i = 1 BY <1>5, <1>9, <2>1
  <2>3. ts[1].due \in Int BY <1>8 DEF Timers
  <2> QED BY <1>9, <1>10, <2>1, <2>2, <2>3 DEF DueInTime
<1>14. TimedPage(q) BY <1>3, <1>4, <1>7 DEF TimedPage
<1>15. \A g \in Debounced : g # f => Remembers(q, g)
  BY <1>d, <1>3, <1>4, <1>7, <1>9 DEF Remembers, SamePending
<1>16. q.since[f] = Wait /\ NoTimer(q.timers, f) BY <1>4, <1>12, <1>13
<1> QED BY <1>1, <1>9, <1>14, <1>15, <1>16, DebounceTimers

(* Time goes by for timers and functions alike. *)
LEMMA TickTimers ==
    ASSUME GoodTimers(page), Tick
    PROVE  GoodTimers(page')
<1> DEFINE ts == page.timers
           since == page.since
           later == [f \in Debounced |-> IF since[f] < Wait THEN since[f] + 1 ELSE Wait]
           t == [i \in DOMAIN ts |-> [of |-> ts[i].of, due |-> ts[i].due - 1]]
<1>1. page' = [page EXCEPT !.since = later, !.timers = t] BY Zenon DEF Tick
<1>2. /\ IsPage(page) /\ ts \in Seq(Timers) /\ since \in [Debounced -> 0..Wait]
      /\ page.timeoutId \in [Debounced -> BOOLEAN]
      /\ \A g \in Debounced : Remembers(page, g)
  BY DEF GoodTimers, TimedPage
<1>w. Wait \in Nat \ {0} BY Wat2WasmAssumption
<1>3. later \in [Debounced -> 0..Wait] BY <1>2, <1>w
<1>4. DOMAIN ts = 1..Len(ts) /\ Len(ts) \in Nat /\ \A i \in 1..Len(ts) : ts[i] \in Timers
  BY <1>2
<1>5. ASSUME NEW i \in 1..Len(ts)
      PROVE  t[i] \in Timers /\ t[i].of = ts[i].of /\ t[i].due = ts[i].due - 1
  <2>1. ts[i] \in Timers /\ t[i] = [of |-> ts[i].of, due |-> ts[i].due - 1] BY <1>4
  <2> HIDE DEF t
  <2> QED BY <2>1 DEF Timers
<1>6. t \in Seq(Timers) /\ Len(t) = Len(ts)
  <2>1. DOMAIN t = 1..Len(ts) BY <1>4
  <2>2. t = [i \in 1..Len(ts) |-> t[i]] BY <1>4
  <2> HIDE DEF t, Timers, ts
  <2> QED BY <1>4, <1>5, <2>1, <2>2
<1>7. \A f \in Debounced :
         /\ since[f] < Wait => later[f] = since[f] + 1
         /\ ~(since[f] < Wait) => later[f] = Wait
  OBVIOUS
<1>d. page.timers = ts /\ page.since = since OBVIOUS
<1> HIDE DEF later, t, ts, since
<1>8. /\ IsPage(page') /\ page'.since = later /\ page'.timers = t
      /\ page'.timeoutId = page.timeoutId
  BY <1>1, <1>2 DEF IsPage, PageFields
<1>9. TimedPage(page') BY <1>2, <1>3, <1>6, <1>8 DEF TimedPage
<1>10. ASSUME NEW f \in Debounced PROVE Remembers(page', f)
  <2>1. CASE page.timeoutId[f]
    <3>1. OneTimer(ts, f, since[f]) BY <1>d, <1>2, <2>1 DEF Remembers
    <3>2. PICK i \in 1..Len(ts) :
             /\ ts[i].of = f /\ DueInTime(ts[i].due, since[f])
             /\ \A j \in 1..Len(ts) : ts[j].of = f => j = i
      BY <3>1, Zenon DEF OneTimer
    <3>3. DueInTime(t[i].due, later[f])
      <4>1. since[f] \in 0..Wait /\ ts[i].due \in Int BY <1>2, <1>4 DEF Timers
      <4>2. t[i].due = ts[i].due - 1 BY <1>5
      <4>3. CASE since[f] < Wait
        <5>1. later[f] = since[f] + 1 BY Zenon, <1>7, <4>3
        <5>2. ts[i].due = Wait - since[f] BY Zenon, <3>2, <4>3 DEF DueInTime
        <5> QED BY <1>w, <4>1, <4>2, <4>3, <5>1, <5>2 DEF DueInTime
      <4>4. CASE ~(since[f] < Wait)
        <5>1. later[f] = Wait BY Zenon, <1>7, <4>4
        <5>2. ts[i].due <= 0 BY Zenon, <3>2, <4>4 DEF DueInTime
        <5> QED BY <1>w, <4>1, <4>2, <5>1, <5>2 DEF DueInTime
      <4> QED BY <4>3, <4>4
    <3>4. i \in 1..Len(t) /\ t[i].of = f BY <1>5, <1>6, <3>2
    <3>5. \A j \in 1..Len(t) : t[j].of = f => j = i BY <1>5, <1>6, <3>2
    <3>6. OneTimer(t, f, later[f]) BY <3>3, <3>4, <3>5, Zenon DEF OneTimer
    <3> QED BY <1>8, <2>1, <3>6 DEF Remembers
  <2>2. CASE ~page.timeoutId[f]
    <3>1. NoTimer(ts, f) BY <1>d, <1>2, <2>2 DEF Remembers
    <3>2. NoTimer(t, f) BY <1>5, <1>6, <3>1 DEF NoTimer
    <3> QED BY <1>8, <2>2, <3>2 DEF Remembers
  <2> QED BY <2>1, <2>2
<1> QED BY <1>9, <1>10 DEF GoodTimers

LEMMA Wat2WasmNextTimers ==
    ASSUME GoodTimers(page), Wat2WasmNext
    PROVE  GoodTimers(page)'
<1>1. CASE EditWat BY <1>1, EditedTimers DEF EditWat
<1>2. CASE EditJs BY <1>2, EditedTimers DEF EditJs
<1>3. CASE OnFeatureChange BY <1>3, EditedTimers DEF OnFeatureChange
<1>4. CASE OnSelectChanged BY <1>4, SetExampleTimers DEF OnSelectChanged
<1>5. CASE FireTimer BY <1>5, FireTimerTimers
<1>6. CASE Tick BY <1>6, TickTimers
<1> QED BY <1>1, <1>2, <1>3, <1>4, <1>5, <1>6 DEF Wat2WasmNext, Visitor

LEMMA TimersFollow == GoodTimers(page) => TimersRemembered
<1> SUFFICES ASSUME GoodTimers(page), NEW f \in Debounced,
                    NEW pending, pending = PendingOf(page.timers, f)
             PROVE  /\ Cardinality(pending) = (IF page.timeoutId[f] THEN 1 ELSE 0)
                    /\ \A i \in pending : IF page.since[f] < Wait
                                          THEN page.timers[i].due = Wait - page.since[f]
                                          ELSE page.timers[i].due <= 0
  BY Zenon DEF TimersRemembered
<1>1. page.timers \in Seq(Timers) /\ Remembers(page, f) BY DEF GoodTimers, TimedPage
<1>2. pending = {i \in 1..Len(page.timers) : page.timers[i].of = f} BY <1>1 DEF PendingOf
<1>3. CASE page.timeoutId[f]
  <2>1. PICK i \in 1..Len(page.timers) :
           /\ page.timers[i].of = f /\ DueInTime(page.timers[i].due, page.since[f])
           /\ \A j \in 1..Len(page.timers) : page.timers[j].of = f => j = i
    BY <1>1, <1>3, Zenon DEF Remembers, OneTimer
  <2>2. pending = {i} BY <1>2, <2>1
  <2>3. Cardinality({i}) = 1 BY FS_Singleton
  <2> QED BY <1>3, <2>1, <2>2, <2>3 DEF DueInTime
<1>4. CASE ~page.timeoutId[f]
  <2>1. pending = {} BY <1>1, <1>2, <1>4 DEF Remembers, NoTimer
  <2>2. Cardinality({}) = 0 BY FS_EmptySet
  <2> QED BY <1>4, <2>1, <2>2
<1> QED BY <1>3, <1>4

(* However late timers fire, each debounced function has the one timer it remembers
   or none, and it is due when the function may be called again (debounce,
   src/docs/demo/wat2wasm/demo.js). *)
THEOREM TimersAlwaysRemembered == PagesSpec => []TimersRemembered
<1>1. PagesInit => GoodTimers(page) BY Wat2WasmInitTimers DEF PagesInit
<1>2. GoodTimers(page) /\ [PagesNext]_pagesVars => GoodTimers(page)'
  BY Wat2WasmNextTimers DEF PagesNext, On, pagesVars
<1>3. GoodTimers(page) => TimersRemembered BY TimersFollow
<1> QED BY <1>1, <1>2, <1>3, PTL DEF PagesSpec
=============================================================================
