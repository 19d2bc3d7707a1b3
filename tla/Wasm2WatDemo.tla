---------------------------- MODULE Wasm2WatDemo ----------------------------
(***************************************************************************)
(* The wasm2wat demo page (docs/demo/wasm2wat/demo.js): it shows the text  *)
(* of a binary, an example or a file that the visitor uploads.  A file is  *)
(* read in the background, and the visitor may go on before it has been;   *)
(* several may be under way, and they end in any order.  Each compilation  *)
(* makes an instance of libwabt of its own, whose `then' calls back at     *)
(* once in this build.                                                     *)
(*                                                                         *)
(* Not in the code: `unread', the files that could not be read.            *)
(***************************************************************************)
EXTENDS Integers, Sequences, FiniteSets

CONSTANTS
    WasmExamples,  \* the binaries of examples.js, in their order
    Files,         \* binaries that the visitor uploads
    OptionBoxes        \* the four check boxes, all checked at first

ASSUME Wasm2WatAssumption == WasmExamples # << >>

VARIABLE viewer

\* The text of a binary, or the error, as converted with these options.
Text(binary, options) == [of |-> binary, options |-> options]

\* Mutant: the options the page was opened with are used.
CompileFirstOptions(v) == [v EXCEPT !.editor = Text(v.fileBuffer, OptionBoxes)]

\* compile(fileBuffer), which is never null once an example has been set.
CompileFile(v) == [v EXCEPT !.editor = Text(v.fileBuffer, v.options)]

SetBinary(v, binary) == CompileFile([v EXCEPT !.fileBuffer = binary])

Wasm2WatInit ==
    viewer = SetBinary([fileBuffer |-> "null", options |-> OptionBoxes,
                        editor |-> Text("null", {}), reading |-> {},
                        unread |-> {}], WasmExamples[1])

RecompileIfChanged ==
    \E box \in OptionBoxes :
        LET checked == IF box \in viewer.options THEN viewer.options \ {box}
                       ELSE viewer.options \cup {box}
        IN  viewer' = CompileFile([viewer EXCEPT !.options = checked])

OnExampleChanged ==
    \E i \in DOMAIN WasmExamples :
        viewer' = SetBinary(viewer, WasmExamples[i])

\* readAsArrayBuffer begins.
OnUploadedFile ==
    \E file \in Files \ viewer.reading :
        viewer' = [viewer EXCEPT !.reading = @ \cup {file}, !.unread = @ \ {file}]

\* Mutant: a file is kept and not shown.
OnLoadKept(file) ==
    viewer' = [viewer EXCEPT !.reading = @ \ {file}, !.fileBuffer = file]

OnLoad(file) ==
    viewer' = SetBinary([viewer EXCEPT !.reading = @ \ {file}], file)

\* There is no handler of the reader's error event.
ReadFails(file) ==
    viewer' = [viewer EXCEPT !.reading = @ \ {file}, !.unread = @ \cup {file}]

ReadEnds(file) ==
    /\ file \in viewer.reading
    /\ OnLoad(file) \/ ReadFails(file)

Wasm2WatNext ==
    \/ RecompileIfChanged \/ OnExampleChanged \/ OnUploadedFile
    \/ \E file \in Files : ReadEnds(file)

-----------------------------------------------------------------------------
FollowsFile(v) == v.editor = Text(v.fileBuffer, v.options)

(* The text is always that of the binary the page holds, whether it was chosen
   or came in late, with the options as they are checked. *)
EditorFollowsFile == FollowsFile(viewer)

(* A file that is uploaded and can be read comes to be shown, whatever the
   visitor does and whichever other files are being read. *)
UploadDisplayed ==
    \A file \in Files :
        (file \in viewer.reading) ~> (viewer.editor.of = file \/ file \in viewer.unread)
=============================================================================
