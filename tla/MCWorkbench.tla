---------------------------- MODULE MCWorkbench ----------------------------
(* Small instances of Workbench. *)
EXTENDS Workbench

\* "order" survives every conversion of the instance, the others only JSON.
MCKeeps     == {<<"order", "ini">>, <<"order", "toml">>} \cap (Docs \X Formats)
MCBracketed == {<<"sample", "ini">>} \cap (Docs \X {"ini"})

\* A JSON document, one in a line-based syntax and a text no reader of JSON takes.
TypedMix  == {Text("order", "ini"), Text("void", "json"), Text("order", "text")}
TypedIni  == {Text("order", "json"), Text("sample", "ini"), Text("order", "text")}
TypedNone == {}
TypedOne  == {Text("order", "json")}

FilesNone == {}
FilesOne  == {[ext |-> "text", text |-> Text("sample", "text")]}
FilesTwo  == {[ext |-> "text", text |-> Text("order", "text")],
              [ext |-> "json", text |-> Text("order", "json")]}
=============================================================================
