# A verification of json-converter-server

json-converter-server is a web page that converts, formats, compares and turns into code
documents in JSON, XML, YAML, TOML and INI (`static/index.html`, a React application around
Monaco editors), and a small Go server that serves it (`main.go`, gin). The page holds nearly all
of the logic; the server's own is the life of its process and the downloads it can send. This directory holds TLA+ models of
both, the TLC configurations that check them on small instances, and TLAPS proofs.

All line numbers below without a file are lines of `static/index.html`.

Contents: [Inventory](#inventory) · [Modules](#modules) · [Reading the page as a state machine](#reading-the-page-as-a-state-machine) ·
[What is checked](#what-is-checked) · [What is proved](#what-is-proved) · [Disagreements found](#disagreements-found) ·
[What is not modelled](#what-is-not-modelled) · [Plan](#plan)

## Inventory

### The page

| Component | State | Operations | Correct when |
|---|---|---|---|
| **Editors** (1247–1510, 2003–2211, 2300–2392, 2864–3092, 3229–3244) | texts `jsonText`, `diffText`; labels `dataFormat`, `leftFormat`, `rightFormat`; `isDiffMode`, `diffViewMode`; up to two Monaco editors or one diff editor with two models, in React refs; `diffAnalysis`, `error`; files being read; the value of the file input | type; choose a format (convert or relabel); format, minify, escape, unescape, strip comments, clear, load a sample; toggle the comparison; switch its view; compare; upload | the editors on the page are those of the mode; they show what the state holds and keep the language of their labels; no switch loses a text; a text is converted only if it can be read; a report belongs to what it reports on |
| **Readers and writers** (1512–2000) | none | `parseCurrentContent`, `xmlToJson`, `iniToJson`, `yamlToJson`, `jsonTo…`, `detectContentFormat` | what is written is read back; what cannot be read is refused |
| **Comparison** (2214–2339) | none | `deepCompare`, `buildPathLineMap` | the differences explain how one document becomes the other, at the lines they are shown at |
| **Merging** (1307–1425) | none | `mergeArrayItems`, `processObject` | the first element of every array has the fields of all |
| **Texts of JSON** (1512–1606, 2395–2629, 2940–2985) | none | strip comments (`removeComments`, `safeRemoveComments`, a fallback), repair punctuation, lay out what does not parse, find the comment of each field | what looks like a comment inside a string stays; the ways of stripping agree on every document; laying out changes white space alone |
| **Code generation** (3893–4412) | none | `genGo`, `inferType`, `formatFieldName`, `generateGenericCode`, detection of time fields | every type used is defined, once, and can hold the document |
| **Code panel** (1464–1509, 2782–2861, 3095–3191) | `isCodeGenMode`, `generatedCode`, `lang`, a Monaco editor, timers | toggle, generate, clear, edit, copy, download, choose a language | it shows what was generated last; it and the comparison exclude each other |

The components meet in the state of one React component, `App`: the mode switches dispose and
create the editors that conversion, comparison and generation read and write; the comparison and
the merging take what the readers return.

What is hard here: each text exists twice, in an editor and in the state, and the handlers read
now one, now the other; what a handler sees depends on which of React's update queues, lanes and
effects have run before it (`static/libs/react-dom`); two effects, a cleanup and a state updater create and dispose the same
references; the callbacks of file readers and timers run after any number of clicks and carry
what they knew when they were started; React renders a callback's updates later than a click's. Several
functions scan the same text for strings, each by its own rule.

### The server

| Component | State | Operations | Correct when |
|---|---|---|---|
| **Process** (`main.go`) | where `main` is; three listeners in goroutines; signals; requests in progress | start, listen, `signal.Notify`, receive, `Shutdown` | it ends by itself only for a reason; an orderly exit leaves no request unanswered; it can be stopped |
| **Bootstrap and configuration** (`bootstrap/`, `global/resource`) | the configuration, clients of other services | a fixed sequence of initialisations; search for configuration files; defaults for ports and timeouts | a configuration that is found is used |
| **Responses, downloads, pages** (`common/ginx`) | the response being written | `ResponseErr`, `JsonResult`, `FileResult`, `handleFileDownload`, page counts | what is written is what was asked for or tells of the error; a file is deleted only by who has written all of it |
| **Middleware, routes, health check** (`server/`) | headers in a context; a singleton service | logging, request context, `GetService` | one service, whoever asks first; nobody calls it before it is there |

Parts without logic of their own (the older page `static/demo.html`, generated API documentation,
scripts that call generators, vendored libraries) are listed in `PROJECT.json`.

What is hard here: three goroutines and a signal handler run in any order, a failing listener ends
the process under the others, and the shutdown may come before the start is over. Requests run in
goroutines of their own, share the health check's singleton and may delete the file that another
one is sending, and what they write goes through buffers to clients that may leave.

The hazards, each at its line with the properties that would catch it, are in `PROJECT.json`.

## Modules

| Module | Models | Used by |
|---|---|---|
| `Documents` | documents as the editors' handlers can tell them apart; readers, writers, detection, conversion, the verdict of a comparison: pure operators | `Workbench` |
| `Rendering` | **abstract**: what the page expects of React: prompt and later updates, in order, none lost | `Workbench` (`Rendered`), `React` (`Implemented`) |
| `Workbench` | the editors of the page: one action per handler, reader callback and rendering; implements `Rendering` | `MCWorkbench`, `WorkbenchClaims`, `Workbench_proofs` |
| `MCWorkbench` | small sets of documents, texts and files | runs `wb_*` |
| `WorkbenchClaims` | what comments and labels say and the editors do not do | runs `claim_models`, `claim_reported` |
| `CodePanel` | the code generation mode, the code editor, the timers | `MCCodePanel`, `CodePanel_proofs` |
| `Lifecycle` | **abstract**: what the server process promises about requests | `Server` (`Life == INSTANCE Lifecycle`) |
| `Server` | the main goroutine, the listeners, signals, shutdown; implements `Lifecycle` | `MCServer`, `Server_proofs` |
| `React` | the part of react-dom that decides when updates take effect: update queues, lanes, the root's callback, the scheduler's tasks, passive effects; implements `Rendering` | `MCReact`, `React_proofs` |
| `Handlers` | requests in goroutines: the health check with its singleton, answers, downloads | `MCHandlers`, `Handlers_proofs` |
| `Compositions` | a loop over a sequence that carries a value along, as the composition of its steps | `React`, `JsonTexts`, `Merging`, `GoStructs` |
| `JsonTexts` | comment stripping, repair of punctuation, layout and the comments of fields, on texts | `Cleaning` |
| `Cleaning` | a text chosen from any set, stripped or laid out; what the page may rely on then | `MCAlgorithms`, `Cleaning_proofs` |
| `Works` | one work of an algorithm: chosen, then done once | `Cleaning`, `Comparison`, `Merging` |
| `Trees` | JSON values with the order of their fields, as JavaScript sees them | the next three |
| `Comparison` | `deepCompare` and `performDiff`'s use of it, on two documents of any set; a reference meaning of its report | `MCAlgorithms`, `Trees_proofs` |
| `Merging` | `processObject`, `mergeArrayItems` and `deepMerge`, one recursive function `Merge` over the calls of them, on a document of any set; as reference, the places of a document and what stands there (`Marks`) | `MCAlgorithms`, `Trees_proofs` |
| `GoStructs` | `genGo`, `genGoStruct`, `genGoInlineStruct`, `inferType`, on a document of any set; as reference, when a type holds a value (`Fits`) and which structs a document calls for (`Named`) | `MCAlgorithms`, `Trees_proofs` |
| `MCAlgorithms` | the algorithms run on every document and text of small sets: composes the works of `Cleaning`, `Comparison`, `Merging` and `GoStructs` | runs `algorithms`, `claim_comments` |
| `MCCodePanel`, `MCServer`, `MCReact`, `MCHandlers` | instances of the modules they are named after | the runs of the same names, `claim_download` |
| `Workbench_proofs`, `CodePanel_proofs`, `Server_proofs`, `React_proofs`, `Handlers_proofs`, `Cleaning_proofs`, `Trees_proofs` (`Comparison`, `Merging` and `GoStructs`) | theorems | |
| `Compositions_proofs` | lemmas about loops, by induction on their length, and about recursive functions, by induction on a rank of their arguments | `React_proofs`, `Cleaning_proofs`, `Trees_proofs` |

Loops over sequences (the update queue of a hook, the characters of a text, the elements that are
merged, the fields of a struct) are recursive functions, in `Compositions`, and so are the walks of `Comparison`,
`Merging` and `GoStructs` over documents. Only `MCAlgorithms`, which is for TLC, has a RECURSIVE operator, for
the heights and weights of its documents.

`Comparison` takes the values it works on from the constant `JsonValues`, a set closed under "is in", with a
`Height` that falls from a value to what is in it: a document that `JSON.parse` returns is finite. `Index`
holds the names of array elements and must be as long as the longest array; any documents satisfy this for
some `Index`. Two things are assumed besides: no key is one that every object inherits (`toString`),
which the operator `in` at 2280 would find in a document that does not have it, and paths are sequences
of keys, where the code joins them with dots (a key with a dot in it reads like two).

`Merging` takes its documents from the constant `Mergeable`. Merging makes new documents as it goes, so
its functions need a set that they do not lead out of: the documents with field names from `FieldNames`
and a `Weight` of at most `MaxWeight`. The weight of a document is its depth if the elements of every array
were put into each other; any finite document has one, and merging never exceeds it (proved), so
the bound excludes no finite document: `MaxWeight` is any number as large as the weights that occur. Two
simplifications: the keys that JavaScript lists first because they look like integers stand where they
were written (of the properties only `MergedOnce` sees an order of fields), and where an array and an
object are merged as objects the array's elements are fields named by `Index`, so `Index` should be as
long as the longest array merged so. The operator `in` of 1332 finds inherited names too: `Inherited` are the
names that every object has (`toString`), as functions, `ArrayNames` those of arrays besides (`length`); what the code
drops because of them is `Dropped`.

`GoStructs` takes its documents from the constant `Generated`, any objects and arrays of those of `Merging` (the page
merges before it generates). The names that `formatName` makes of a key are a parameter (`Names`): one
for an object, one for the elements of an array and one for those of an array of arrays; which keys share
a name is up to it. A struct name is assumed not to be one of Go's types, since it begins with a capital
or a Chinese character or with "field". Of the detection of time fields only that it may throw is modelled
(`TimeCheckFails`), as if no field looked like a time: one that does ends the search before it comes to a null behind it. `MaxDepth` is 20 in the code (4149) and 2 in the run.

Where a mutated form of
a definition stands before it (`InitMainSample` before `InitMain`), it is a plausible bug that some
property must catch; each property of each passing run has one.

### How `Workbench` corresponds to the code

* A **text** is a record of the document its own reader gets from it and the syntax it is written
  in. The label is a separate state variable, as in the code: a text labelled JSON may be INI.
* `Parse(t, f)` is the *set* of objects `parseCurrentContent` may return, empty when it throws.
  Only the JSON reader throws; the XML, INI and YAML readers take what they recognise, so a text
  of another syntax yields `Garbage` or nothing. `Write`, `Detect`, `Converted` likewise.
  Which documents survive which format is a parameter (`Keeps`); that TOML has no reader of its own
  and is read and highlighted as INI is in `Reader` and `MonacoLang`.
* `editors` maps the four panes a Monaco instance may fill (`json`, `diff`, and the git view's
  `original` and `modified`) to where it is, what it shows and its language.
* `InitMain`, `InitDiff`, `SyncGit`, `Dispose` are the effects, as functions on `editors`;
  `Effects` is their sequence after a switch.
* The tools whose result is the same to every property (minify, Unicode conversions, strip
  comments) are one disjunct of `JsonTool`.

### How `CodePanel`, `Server` correspond to the code

* `CodePanel!ToggleCodeGen` is `toggleCodeGenMode` with the effect that follows it; the `setTimeout`
  at 3158 becomes an entry of `timers` with the code of that moment, and its callback `TimerFires`.
* `Server!pc` is where `main` is; `Launch` is a `go` statement, `Bind` the `ListenAndServe` in the
  goroutine, which may fail because its port is taken or, if the server's socket is one that may fail (`failing`),
  for any other reason the system has; `Fail` is its return later, for an error of accepting, and
  `ServeReturns` its return with `ErrServerClosed`. Go's and the system's part (is a port
  free, what happens to a signal, requests) is marked external in the map. A configuration (which of
  the three servers exist, their ports, port 0 = any, a data source, which sockets may fail) is chosen in `Init`. The code
  after the second `ListenAndServe` of `fileServer` (138–142) is never reached and not modelled,
  since `ListenAndServe` always returns an error.

### How `React`, `Handlers`, `JsonTexts` correspond to the code

* `React` has one root and one component, as the page has. `work` is what the one thread is doing.
  `Dispatch` is `dispatchSetState` with the shortcut for updates that change nothing
  (`hasEagerState`), `EnsureRootIsScheduled` the function of that name, `RenderHooks` the
  `updateReducer` loop of every hook with its rebasing (`Shown` is what one update of the queue does to
  the state under given lanes, `ApplyAll` the loop, and `Meaning` the state that all the updates of
  the lanes given, in their order, ask for), `Commit` `commitRootImpl`, and
  `FlushPassiveEffects`, `FlushFirst`, `AfterCommit` the three occasions on which effects run. Clicks
  and key presses have the lane `Sync`, other callbacks `Default`; the page uses no other. Elements
  and their reconciliation are abstracted to whether a commit deletes any.
* `Handlers!pc[r]` is where the goroutine of request `r` is. `Check`, `Once`, `Lock`, `Make`, `Unlock`
  are the unsynchronised look in `GetService` and the steps of `sync.Once`; `Stat` to `End` are
  `handleFileDownloadFromPath`, the functions for the other sources and `handleFileDownload`. What
  `net/http` does with a write is marked external: the first decides the status and a declared length
  refuses what goes beyond it (`Written`); what is written goes into a buffer (`Room`), from where it is
  sent (`Send`) while the handler runs and after it. A client may leave at any moment, or be cut off by
  the write timeout (`Leave`); the handler notices only when a write finds no room (`Breaks`,
  `WriteFails`), so that to write all of a file is not to deliver it. A file is counted in units, of which a
  message has the length of one.
* `JsonTexts` has texts as sequences of the characters that the code tells apart (quotes of both
  kinds, backslash, slash, line break, brackets, comma, colon, the full-width forms, a letter). The
  scanners are state machines whose step is a function of the character (`ScanJson`, `ScanBoth`), and
  every loop over a text is one of `Compositions`; `softFormatJson` is one loop (`Format`) over the
  text, with the scanner's state, the indentation and the text written so far. The reference that stripping is compared with finds strings by the
  parity of the backslashes before each quote, which no function of the code does.

## Reading the page as a state machine

React handles a click or key press, renders, and runs the effects before the next one: an action of
`Workbench` is the whole of that. The callback of a file reader is not a click: React 18 batches its
updates and renders them in a later task, so a click may come between; its handler then still has
the earlier texts and labels in its closure. Therefore `view` is the state last rendered, which
handlers and effects read, and `queued` the state with every update applied; `Render` makes them
equal. The constant `PromptRender` says whether a click can come before that. The runs `wb_edit` and
`wb_upload` take it as TRUE, `wb_late` as FALSE; `ShownIsState` and `SwitchKeepsTexts` are stated for
prompt rendering, since in the gap an editor *is* ahead of the state it will have.

That this is what React does is not left as an assumption: it is the module `Rendering`. Every step of
`Workbench` is a step of it (`UpdatesAsReact`, proved for all constants), and `React`, the model of the
library's own queues and scheduling, implements it (`ImplementsRendering`, model-checked and proved).
`HandlersSeeState` and `ClickEffectsDone` justify taking a click with its rendering and effects as one
action. For callbacks, `Render` merges a rendering with its effects although these may run in a later
task: between the two a click may come, but the only effect that such a rendering triggers in
`Workbench` is `SyncGit`, which writes languages that no handler reads, and every rendering first runs
the effects of the one before (`NoEffectOvertaken`). `React` has no updates made while rendering. The page makes one:
the updater of `toggleDiffMode` (2363-2368), which React may run in the render, also sets `isCodeGenMode`, for which
React renders once more. `Workbench` has no `isCodeGenMode`; `CodePanel` takes both updates as the one step that
the user sees.

A step of the mode switch runs cleanup and effects in one action. `toggleDiffMode` disposes inside
its state updater; the cleanup that follows finds the references empty (this is why `ToggleDiff`
sets `orphaned`).

Simplifications, with their effect: two reads of one file with one target are not told apart
(`reads` is a set); the text an escaped string was made of is forgotten (unescaping yields any text
the user types); messages are a Boolean; whether the repair of punctuation or the layout makes JSON
of a text, and whether the layout throws, is a choice in `FormatUnparsed` (which of them happens to
which text is in `JsonTexts`).

## What is checked

| Run | Instance | States | Properties |
|---|---|---|---|
| `wb_edit` | 4 formats, 3 documents (one `null`), 3 typed texts, no files | 125 thousand | `TypeOK`, `EditorsMatchMode`, `ShownIsState`, `NoReportOutsideDiff`, `UnreadableTextKept` |
| `wb_upload` | 2 formats, 2 documents, 2 files, 2 reads at a time | 559 thousand | `ShownIsState`, `SwitchKeepsTexts` |
| `wb_late` | 2 formats, 1 document, 1 read, late rendering | 466 thousand | `GitHighlightMatchesLabel`, `UpdatesAsReact`, `SplitKeepsHighlight` |
| `code_panel` | 3 codes, 2 languages, 3 timers | 3.4 thousand | `TypeOK`, `ModesExclusive`, `OnlyStaleTimersDisturb`, `TimersDrain` |
| `react` | 2 hooks of 2 values, 2 effects, 3 updates per queue, 2 tasks | 234 thousand | `HandlersSeeState`, `ClickEffectsDone`, `WorkScheduled`, `ImplementsRendering`, `NoEffectOvertaken`, `Settles` |
| `server` | 3 servers, 2 ports and port 0, ports held by others, sockets that may fail, 2 requests | 79 thousand | `TypeOK`, `FatalHasCause`, `KeepsPromise`, `ConflictEnds`, `Stops` |
| `handlers` | 2 requests, every kind and source, a file of 2 units, a buffer of 1 | 65 thousand | `TypeOK`, `OneService`, `KnownLengthDelivered`, `StatusTells`, `DeletedOnlyHandedOver`, `AllAnswered` |
| `algorithms` | 26,200 pairs compared, 5,300 documents merged, 3,900 documents × 2 names × 2 styles generated, 56,000 texts of up to 6 characters | 207 thousand | `ReportExplains`, `FirstHasAllFields`, `ConcreteWins`, `MergedOnce`, `TypesHoldDocument`, `StripsComments`, `JsonReadAlike`, `FallbackAddsNothing`, `SoftFormatSound` |

and four runs that find a behaviour contrary to what the repository says, [below](#disagreements-found).

What the properties say:

* **`EditorsMatchMode`**: at every moment exactly the editors of the current mode and view are on the
  page, none left over from another, none missing, none made twice.
* **`ShownIsState`**: outside the git view an editor shows what the state holds. It matters because
  every handler reads the editor and writes the state, or the reverse. The one exception is the
  code's: a main editor created on an empty text shows the sample (1431).
* **`GitHighlightMatchesLabel`**: in the git view both models are highlighted in the languages of their
  labels, whichever of selector, upload and view switch came last and however late an upload is rendered.
* **`SplitKeepsHighlight`**: a split editor, left or right, that is in the language of its label does not part from
  it, but by two steps of the code, which has no effect that would correct them: a switch that creates the editor
  after an upload has set the label and before React has rendered it (2126), and an upload to the main editor, chosen outside the comparison,
  that ends in the split view, finds the left editor there and sets the main label (3043-3053).
* **`SwitchKeepsTexts`**: a switch of mode or view, which disposes every editor and builds others,
  leaves the texts the user sees. Two exceptions of the code are named in it: an upload that lands
  behind the git view (`BehindGit`) and the sample in place of an empty text.
* **`UnreadableTextKept`**: choosing another format for a text that is labelled JSON and is not JSON
  never rewrites it. (For the tolerant readers this is not so: see `Parse`.)
* **`NoReportOutsideDiff`**: a report does not outlive the comparison.
* **`UpdatesAsReact`**: no handler or callback changes a state variable in a way that React's hooks
  could not: what a click sets shows at once, what a callback sets shows later, and an update that is
  still waiting is never lost under one made after it.
* **`ImplementsRendering`**: React's queues keep that promise, with the shortcut for updates that
  change nothing, with two lanes of which one overtakes the other, and with the rebasing that puts
  the overtaken updates back in order. **`HandlersSeeState`**: a handler sees all that earlier clicks
  did. **`ClickEffectsDone`**: and so did their effects. **`NoEffectOvertaken`**: no state is rendered
  over effects that have not run for the one before. **`WorkScheduled`**: an update that waits has
  exactly one callback of its priority to render it, whatever was cancelled. **`Settles`**: if events
  cease, all updates are shown and all effects have run.
* **`ModesExclusive`**, **`OnlyStaleTimersDisturb`**, **`TimersDrain`**: comparison and code generation
  exclude each other; the panel goes on showing the generated code unless the user types or a timer
  started with older code fires; timers do not stay behind.
* **`KeepsPromise`**: the process implements `Lifecycle` – no request is taken once it drains, it stops
  in good order only when none is left. **`FatalHasCause`**: the listeners' `log.Fatalf` is
  reached only by a server that comes to listen on a contested port or whose socket fails, and by the HTTP
  server never once the shutdown drains, not for the error every shutdown makes `ListenAndServe` return,
  nor for a port its goroutine, run late, would not have got. **`ConflictEnds`**: a conflict never leaves a process running without one of its servers.
  **`Stops`**: a user who keeps sending signals ends the process, although a signal may be lost.
* **`OneService`**: although `GetService` looks at the singleton before `once.Do`, one service is made
  and nobody goes on without it. **`AllAnswered`**: nobody waits for ever, and a client that
  stays gets all of the answer.
  **`KnownLengthDelivered`**: a download of known length that was written to its end reaches a client that stays, whole and
  alone, although an error is written after it and another request may delete the file meanwhile.
  Outside it: an empty file, which is never written, so that the error's header is the first.
  **`DeletedOnlyHandedOver`**: a file is deleted only by who was asked to and has written all of it,
  of which no more than a buffer is unsent; that its client has it then is not so: what is
  in the buffers may never be sent.
  **`StatusTells`**: the status is 500 exactly when what was written begins with an error: one that comes
  after data, and a body that is cut off, leave the 200 of the first write.
* **`ReportExplains`**: replacing, in what the left document says, the places of the report by the
  values of the report gives what the right document says. Outside it (`Blind`, `BlindDocuments`):
  an object against an array, either of them on the left against null, and outermost values
  without fields.
* **`FirstHasAllFields`**, **`ConcreteWins`**, **`MergedOnce`**: for regular documents (no place with
  arrays and objects, no array mixing objects with other elements, and under a name that every object inherits only objects and
  arrays, since the code drops anything else there) the first elements of the merged
  document have exactly the fields of all elements; null or an empty text stays only where no element
  has another value; and merging is idempotent, for irregular documents too.
* **`TypesHoldDocument`**: every name the Go types use is defined and the struct of that name has the
  fields of each object it stands for. The documents it speaks of are `Understood`. In either style the search for
  time fields must not throw, as it does on an array that begins with null, where the page then shows an error
  text and no types (`TimeCheckFails`). With structs by name:
  no two different objects share a name (`NamesApart`), none is deeper than `MaxDepth`, and no array of arrays
  begins with 0 or an empty text, which `firstItem[0] || {}` takes for an empty object, or with an array that has elements,
  which it takes for an object with fields 0, 1, … (`Misread`). With structs in place: not misread either, and no arrays of
  objects below a struct in place, which are given a name that is never generated (`LosesStruct`). Of
  the run's documents that are not understood, all but five do get types that fail to hold them, so the exceptions are
  hardly wider than the code's own.

* **`StripsComments`**: the functions for the generator and the tool take out exactly what a reader of
  JSON sees as comments. **`JsonReadAlike`**: the formatter's own function, which knows apostrophes too,
  takes out the same where the result can be a document, and the repair leaves such a document alone.
  **`FallbackAddsNothing`**: the fallback that cuts inside strings makes no document of what is none.
  **`SoftFormatSound`**: laying out a text changes white space outside strings alone, a second time
  changes nothing, and it throws exactly when more brackets close than were opened.

### Bounds

`Formats`, `Docs`, `Typed`, `Files` are small sets: the handlers compare formats and texts for
equality and look at syntax and label, never at more, so that one document of each behaviour
(survives a conversion, does not, is null, begins with a bracket, is not JSON) reaches every branch.
`MaxReads` = 2 lets two reads end in either order around every click; `MaxTimers` = 3 lets two stale
timers precede a fresh one. `MaxOpen` = 2 tells "some request left" from "none left". In `react`, a queue of three has room for an
update that overtakes, one overtaken and one that follows both; `MaxTasks` = 2 lets a cancelled task
stand before a live one and effects before either. In `handlers`, two requests meet
in the mutex or around the file, each in any role; two units tell "half written" from "whole", and a buffer of one, smaller than the file,
"written" from "sent" as well as "room" from "none". In
`algorithms`, objects have two fields and are nested up to four deep; arrays have up to three elements; structs
are generated to depth 2, which documents stay within and exceed;
texts of six characters have room for a string with an escaped quote and a comment behind it, and
those of five, of more kinds of characters, for two nested brackets. `MaxWeight` = 16 is
above the weight of every document of the run. The unbounded variants of these (any formats, files, numbers
of reads, timers, requests, updates in a queue, texts of any length, documents of any depth and width)
are what the theorems cover.

### Fairness

`Workbench` has none: everything in it is a choice of the user, the browser or React, and its
properties are of safety. `CodePanel` assumes `WF(TimerFires)`: browsers run timers that are due.
`React` assumes weak fairness of `System`, that is, handlers return and the browser goes on to run
microtasks and tasks; it assumes nothing of events, so `Settles` holds however many come, as long as
they cease. `Handlers` assumes weak fairness of each goroutine's steps, which Go's scheduler gives, and
of sending to each client that stays: one that does not read is cut off by the write timeout (`main.go:101`), which is
a `Leave`. A reader that the caller supplies is assumed not to block for ever. `sync.Mutex` is not assumed to be fair.
`Server` assumes that goroutines that can run are scheduled, that a signal sent is delivered, and
that handlers return (`Finish`; `WriteTimeout` bounds what a client can make them wait for); it does
not assume that anyone sends a signal or a request. `Stops` has the user's insistence as its
hypothesis. Without `WF(Finish)` it fails: `Shutdown` has no deadline, and signals are swallowed then.

## What is proved

The proofs hold for every value of the constants under the named assumptions of the modules
(`DocumentsAssumption`, `WorkbenchAssumption`, `CodePanelAssumption`, `ServerAssumption`, `ReactAssumption`, `HandlersAssumption`, `CleaningAssumption`, `ComparisonAssumption`, `MergingAssumption`, `GoAssumption`: the samples
are documents, JSON and text are formats, TOML comes with INI, typed texts are texts, the bounds are natural numbers, what is cleaned is a text).

`Workbench_proofs`:

1. `TypeCorrect`: `TypeOK` is inductive. Lemmas give the type of what each reader, writer and effect
   returns; one lemma per action follows.
2. `EditorsFollowModes`: `EditorsMatchMode` is inductive over `TypeOK`. Two lemmas carry it: the
   effects, run on a page without editors, create exactly those of the mode (`EffectsFromScratch`), and
   every action but the switches leaves the editors where they are (`ClickKeepsPlaces`).
3. `ReportsStayInDiff`: `NoReportOutsideDiff`, from the two actions that set a report.
4. `GitHighlightFollowsLabels`, inductive with 2, which says what panes a step can touch: however late
   the rendering, it runs the effect on the labels again. `SplitHighlightsKept`, an action property from 2:
   a selector and an upload's callback set label and language together, and of the steps that part
   them only the two named ones are left.
5. `ShownFollowsState`: `ShownIsState` is not inductive alone. That a rewritten editor shows the state
   needs that the editor is there (2), and that the state it is compared with is the queued one, which
   with prompt rendering differs from the rendered one only between a callback and its rendering.
6. `SwitchesKeepTexts`: an action property, from 2 and 5: what is seen before the switch is the
   state (`SeenIsState`), and so is what is seen after it (`SeenAfterSwitch`).
7. `ImplementsRendering`: `Spec => UpdatesAsReact`, the refinement. A click sets one or two hooks in
   both copies (`SetStep`, `Set2Step`); a callback sets the queued copy alone (`LaterStep`).
8. `UnreadableTextsKept`: an action property from 1: the JSON reader refuses what is not JSON, so the
   selectors' only enabled branch is `Relabel`, which keeps the text.

`CodePanel_proofs`: `CodeTypeCorrect`; `ModesExclude`, inductive over the type; `StaleTimersOnly`, an
action property that needs `ModesExclude` to know that the panel has its editor.

`Server_proofs`: `ServerTypeCorrect`; `IInv` (only configured servers run; the HTTP server is not up
before `main` starts it, nor once the shutdown drains) is inductive. With it `FatalAlwaysCaused`: whoever
has the port that a server finds taken was configured with it; and `Implements`: every step of `Server` is a step of
`Lifecycle` or a stutter, under the refinement mapping `phase`.

`Compositions_proofs` has the induction that the others need. The prover cannot take an induction
theorem over a predicate; `SetInduction` is over a *set* of numbers instead, from the library's
minimum of a well-founded relation (`WFMin`), and a proof by induction names the set of the lengths its
claim holds for. From it: a loop is what its recursion says (`ThroughSteps`), stays in the type of its
steps, depends on no later step (`SamePrefix`), can be cut in two (`OutcomeSplit`), keeps what each of its
steps keeps (`OutcomeInvariant`), and two loops whose steps keep a relation end in it (`LoopsRelated`).
For recursive functions over anything that has a rank: what holds of an argument if it holds of those
of lower rank holds of all (`RankInduction`); a definition that looks at lower arguments only has a
solution (`RankedRecursion`), also when it is defined only for values of the right type
(`TypedRecursion`).

`React_proofs`:

1. `WorkAlwaysScheduled`, by an invariant (`IInv`) that adds to `WorkScheduled` where the callback is
   while the root is being rendered (`Taken`) and what lanes the tasks and fibers may hold.
2. `ClickEffectsAlwaysDone` and `EffectsNeverOvertaken`, by `EffectsInv`: effects not marked have seen
   the state, and none are marked when a render begins.
3. `HooksImplementRendering` and `HandlersAlwaysSeeState`, by `QueueInv`. What the library shows
   (`memoizedState`) must be what its queue means without the overtaken updates; for that to survive a
   render, an eager state must be the one its update gives wherever the render meets it, an update
   that was never scheduled must change nothing, and the base queue must begin with an update that
   was overtaken. The step of `Render` is an induction along the queue: skipping, keeping what follows
   and starting from the state at the first one skipped leaves the same meaning (`LoopsRelated`).

`Handlers_proofs`: `HandlersTypeCorrect`; `OneServiceEver`, by `OnceInv`, which says for the holder of the
mutex, and for a free mutex, how many services there are.
`KnownLengthsDelivered` and `DeletesOnlyHandedOver`, by `DeliveryInv`: up to the copy nothing is
written, from then on what was read, and nothing else, is what was written, and the declared length is that of the source
(`Sent`). Two lemmas carry it: data fit until the source is read (`DataWritten`), and after that an error
does not get in (`ErrorRefused`); a step of one request leaves the others alone (`OthersKept`).
`ConnectionInv` adds that no more than a buffer of what was written is unsent.

`StatusAlwaysTells`, by `StatusInv`: the first unit of a body decides its status and a status decided
without a body stays without one (`AnswerOK`), and nothing is decided before the place that answers.

`Cleaning_proofs`: what the loops over texts do to texts of every length, by induction on the text
(`TextInduction`) and on its lines (`LinesInduction`).

1. `CommentsAlwaysStripped`. The scanner's two flags are the parities by which a reader finds strings
   and escapes (`ScanJsonReads`), so the cuts are the same.
2. `JsonAlwaysReadAlike`. On a line that JSON can have both scanners are in the same state throughout
   (`ScannersAgree`); up to the end of what one of them leaves they have therefore seen the same, and
   cut at the same place (`CutAlike`, `SafeAsStrict`). Splitting gives back the lines that were joined
   (`LinesJoined`), so a document is JSON when its lines are; the repair, which scans the whole text
   at once, finds itself outside strings at each line break (`SoundJoined`).
3. `FallbackNeverAdds`: a line cut at its first `//` that ends outside strings was cut at a comment
   (`AnywhereAsStrict`).
4. `LayoutAlwaysSound`, by an invariant of the loop (`LaidOutWell`): what has been written so far, laid
   out again, brings the loop to the same state, and has the same text outside its white space. One
   character written is read back as that character (`ReadBack`), since what is written around it is
   white space outside strings (`WhiteRead`). The level is the depth (`FormatSound`).

`Trees_proofs`, on the comparison: `ReportAlwaysExplains`, for documents of any depth and width.

1. A recursive definition over values has a solution when what it says of a value depends on lower
   values only (`RankedRecursion`: by induction there is one up to every height, and two of them agree below
   the lesser). So `Facts`, `DeepCompare` and `Blind` are what their definitions say (`FactsRecur`,
   `DeepCompareRecur`, `BlindRecur`), `deepCompare` never descending except to lower values (`KeyReportType`).
2. Facts and differences are at the place they are asked for or below it (`FactsBelow`, `ReportBelow`),
   and what is below one key of an object is not below another (`Branches`). So the report can be
   carried out key by key (`KeyByKey`): no difference disturbs the facts of another key.
3. One key is explained when both sides have it (`KeyExplained`), which for two objects is the
   induction hypothesis (`EveryObjectExplained`, by `HeightInduction`), for an object against anything
   else is where blindness comes in, and for the rest is a comparison as a whole.

`Trees_proofs`, on the merging: `AlwaysFirstHasAllFields`, `AlwaysConcreteWins` and `AlwaysMergedOnce`, for documents
of any depth and width. The three functions call each other, and two of the calls are for values that
were put together just before (the objects of an array merged into one, arrays joined), which are part
of nothing given: an induction on depth does not get through, the weight is for this.

1. `UpTo`, `Weight` and `Marks` are what their definitions say (`UpToRecurs`, `WeightRecurs`, `MarksRecur`), by
   depth, and so every document is an atom, an array or an object of documents (`TreeShape`).
2. A call to merge or to process an array or a value of weight *W* has the rank 2*W* + 1 or 2*W* + 2, and one
   to merge two values, 2(*W* + *W'*). Each body calls only calls of lower rank and returns a
   document no heavier than those given, if its calls do (`BodyStep`); so the recursion has a solution with
   documents of bounded weight as its results (`MergeRecurs`).
3. `AlwaysMergedOnce`: what `Merge` returns for an array or a value is left alone by a second call
   (`EverythingSettles`, by `CallInduction`). An array of one object is merged into the empty object, which gives
   the object back; an array of one array is flattened to that array.
4. For the other two, what merging keeps: each mark of the result is one of the values given, each
   field of the values given is in the result, and what is concrete there stays so, provided that the
   marks of all are regular together (`Kept`). It goes through fields (`FieldKeeps`), objects (`ObjectsKeep`),
   joined arrays (`ArraysKeep`), the loop over the elements (`SuperKeeps`) and whole arrays (`ArrayKeeps`) to
   every call (`EverythingKept`).
5. `Thin` says that a merged document has no field that is not also under first elements alone
   (`EverythingThin`); with 4, the fields of first elements are the fields of all. Of two values at one
   place, of which one has to be concrete, the generator sees only one (`OneFirst`).
6. The invariant of the specification (`Merged`) is that a result that is there is `ProcessObject` of the
   document; the three properties follow from it by 3, 4 and 5.

`Trees_proofs`, on the generation: `AlwaysTypesHoldDocument`, for documents of any depth and width, any names and
any depth limit. The difficulty is that one table of structs is carried through the whole document and is
looked up by name before anything is generated: the struct an object is given may have been generated elsewhere,
for another object.

1. `Struct`, `Fits`, `Named` and `HoldsArray` are what their definitions say (`StructRecurs`, `FitsRecurs`,
   `NamedRecurs`, `HoldsArrayRecurs`), each by weight or depth; one lemma lists what a field can be
   (`FieldTypeCases`), and the type of a field and what it refers to agree with each other.
2. The structs a document calls for are closed: whatever a field of one of them refers to is among them
   (`NamedClosed`), apart in name, read rightly and not too deep (`Whole`, by `UnderstoodWhole`).
3. What is kept of the table (`Faithful`): each struct in it is one that is called for, with the fields of
   its object, and those that its fields refer to are in the table too, since a struct is noted only after
   the call for it returns. A call promises (`Delivers`) to keep that and what is noted, and that its own
   struct and those it refers to are noted when it returns. Noting
   a struct (`NotingFaithful`), a field (`ReferredFaithful`), the loop over the fields (`BelowFaithful`) and
   the call (`MadeStep`) keep the one and deliver the other; by induction on the weight every call does (`AllMade`).
4. Then every struct in the code fits its object, by induction on the object: its fields' types hold
   their values (`FitsFields`, from `FitsName`, `FitsPlace`, `FitsMatrix`, `FitsBasic` and others), those by name because
   names are apart (`AllHeld`, `NamedHold`); structs in place by their own recursion (`PlaceHolds`, `InlineHolds`).
5. The invariant (`Generation`) is that a result that is there is the `Code` of the document.

Only model-checked: what needs fairness (`TimersDrain`, `ConflictEnds`, `Stops`, `Settles`,
`AllAnswered`), which the prover does not do. Every other property of the passing runs is proved.

## Disagreements found

Each is a run that TLC finds violated, of a sentence in the repository.

| Run | The repository says | The code does |
|---|---|---|
| `claim_models` | 2192: models created by hand are cleaned up | toggling the comparison off from the git view clears the reference before the cleanup that would dispose the models |
| `claim_reported` | 2577: a parse error is located and reported | the error handler ends in a ReferenceError (`safeRemoveComments` is out of scope) and sets no message |
| `claim_download` | `response.go:67`: `FileResult` returns the stream of the file | `handleFileDownload` goes on, after a download that succeeded, to the error of one without a source; a reader's client receives it behind the file |
| `claim_comments` | 1116: the sample's comments stand above their fields | `parseJsonWithComments` gives a comment to the field before it (1577) |

Seen while modelling, without a run: an INI text that begins with a section passes for JSON and is
only relabelled, though choosing a format is to convert (3559); the verdict "semantically identical"
stays while the documents are edited (3730); a timer of the mode switch puts cleared code back (2991);
a file to be deleted after
the download is deleted when `net/http` has taken its bytes, sent or not (`response.go:229`);
a signal that comes between `Notify` and the receive is lost, the channel being unbuffered
(`main.go:82`); an apostrophe in a comment starts a string for the formatter's repair and layout
(2508, 2395), which then leave the rest as it is; two keys may become one Go field name (3934); after a failed read the same file cannot be chosen again (3090);
an upload behind the git view is not shown there (3077); after a comparison the code editor is
highlighted as Go whatever the language is (1468); the split editors may end up in other languages than their
labels, by the two steps that `SplitKeepsHighlight` names (2126, 3043); `[[0, 1]]` becomes `[][]map[string]interface{}`
and `[[[1]]]` becomes a struct with a field 0 (4206); structs that share a name lose one of their definitions (4248); structs in place refer to
names that are not generated (4298); an array that begins with null is not merged (1394); of `{"a": [null]}` no types are generated, an error text
is shown (4123); `[{"toString": 1}]` is merged into `[{}]` (1332); two
different numbers compared as documents count as identical (2276); a field named like one that every
object inherits (`toString`), in one document only, is reported as modified instead of added or removed, since `in` finds the
inherited one (2280); pprof, if enabled with the
configuration delivered, wants the HTTP server's port 8080 (`conf/application.yaml`), which
`ConflictEnds` says ends the process.

## What is not modelled

* The readers and writers of XML, INI, YAML and TOML, character by character: `Documents` has their
  outcomes. Which documents survive a round trip is a parameter.
* `buildPathLineMap`; detection of time fields, statistics and the generation report; tags, comments
  and `formatFieldName` in generated code; the languages other than Go (they generate one flat type).
* Positions of error markers; copying, downloading, layout, messages, resizing, keyboard help of the
  page: no state that a property is about.
* Requests to the file and pprof servers, `basicAuth`, metrics: nothing in the process waits for them.
* `bootstrap/` and `global/resource`: a fixed sequence of initialisations by third-party libraries. The
  middleware copies headers to a context and bodies to a log. `GetPageCount` and `GetOffset` of
  `ginx/page.go` are called by nothing.
* Of React: elements and their reconciliation, transitions, Suspense, layout effects, errors thrown
  by a component, priorities that the page's events do not have. Monaco, Babel and Font Awesome, which
  with React make up nearly all the lines under `static/libs`, are third-party code; Monaco is modelled
  as `index.html` uses it. The program's own logic is in `index.html`, which holds it as a script, and
  in a few hundred lines of Go.

## Plan

Done: `Documents`, `Rendering`, `Workbench`, `CodePanel`, `React` and their proofs; `Lifecycle`, `Server` and
its refinement; `Handlers` and `JsonTexts` with their proofs; `Trees`, `Comparison`, `Merging`, `GoStructs` with theirs.

Left, in this order:

1. `TwoTexts`, abstract: two texts, a mode, edits; `Workbench` shown to implement it (what the user
   sees is a pair of texts that only edits, conversions and uploads change). Theorem by way of
   `ShownIsState`.
2. `App`, composing `Workbench` and `CodePanel` over the switches they share (`isDiffMode`, clearing,
   generating from the main editor), with the exclusion of the modes as an invariant of both.
3. `PathLines`: `buildPathLineMap` against the line a path is really at; collisions of field names in
   `GoStructs`; in the run `algorithms`.
4. Round trips of the readers and writers over token sequences, to replace the parameter `Keeps`.
5. Theorems: the refinements of 1 and 2.
