----------------------------- MODULE DemoPages ------------------------------
(***************************************************************************)
(* The demo pages, of which the visitor opens one at most.                 *)
(*                                                                         *)
(* The browser does not stop: time goes by, a timer that is due fires and  *)
(* a file that is being read ends, in error or not.  The visitor need not  *)
(* do anything.                                                            *)
(***************************************************************************)
EXTENDS Wat2WasmDemo, Wasm2WatDemo

CONSTANT Pages  \* what may be opened: "wat2wasm", "wasm2wat", or "libwabt" for neither

ASSUME PagesAssumption == Pages \subseteq {"wat2wasm", "wasm2wat", "libwabt"}

VARIABLE opened

pagesVars == <<page, viewer, opened>>

PagesInit ==
    /\ opened \in Pages
    /\ Wat2WasmInit
    /\ Wasm2WatInit

On(name, action) == opened = name /\ action /\ UNCHANGED opened

PagesNext ==
    \/ On("wat2wasm", Wat2WasmNext) /\ UNCHANGED viewer
    \/ On("wasm2wat", Wasm2WatNext) /\ UNCHANGED page

PagesFairness ==
    /\ WF_pagesVars(On("wat2wasm", Tick) /\ UNCHANGED viewer)
    /\ WF_pagesVars(On("wat2wasm", FireTimer) /\ UNCHANGED viewer)
    /\ \A file \in Files :
          WF_pagesVars(On("wasm2wat", ReadEnds(file)) /\ UNCHANGED page)

PagesSpec == PagesInit /\ [][PagesNext]_pagesVars /\ PagesFairness
=============================================================================
