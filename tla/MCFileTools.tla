------------------------------ MODULE MCFileTools -----------------------------
(* Values for FileTools that a .cfg file cannot write: a workspace with a  *)
(* directory and two files, one of them with CR LF line ends, inputs that  *)
(* succeed and fail in every way, and patches with one or two files and    *)
(* hunks.                                                                  *)
EXTENDS FileTools

CONSTANTS c1, c2, c3

Top == <<"g">>
Sub == <<"d">>
In == <<"d", "f">>
New == <<"e", "f">>
UnderTop == <<"g", "f">>

bCR == "b\r"
MCLine == {"", "++", "a", "b", bCR, "c"}
MCUnix == [line \in MCLine |-> IF line = bCR THEN "b" ELSE line]

MCWorkspaces ==
  {(Top :> <<"a", "b", "a">>) @@ (Sub :> Dir) @@ (In :> <<"a">>),
   (Top :> <<bCR, "a", bCR>>) @@ (Sub :> Dir) @@ (In :> <<bCR, "">>),
   (Top :> <<"a", "b", "">>) @@ (In :> <<"b", "">>) @@ (Sub :> Dir)}

Headers(p) == <<[kind |-> "---", path |-> p], [kind |-> "+++", path |-> p, text |-> "++"]>>
HunkHeader(kind, start, old, new) ==
  [kind |-> kind, oldStart |-> start, oldCount |-> old, newCount |-> new]
Body(kinds, texts) == [i \in DOMAIN kinds |-> [kind |-> kinds[i], text |-> texts[i]]]

(* A hunk that replaces a line, after a line of context or not.            *)
Change(start, old, new) == <<HunkHeader("@@", start, 1, 1)>> \o Body(<<"-", "+">>, <<old, new>>)
Context(start, before, old, new) ==
  <<HunkHeader("@@", start, 2, 2)>> \o Body(<<" ", "-", "+">>, <<before, old, new>>)
Removal(start, old) == <<HunkHeader("@@", start, 1, 0)>> \o Body(<<"-">>, <<old>>)
Creation(text) == <<HunkHeader("@@", 0, 0, 1)>> \o Body(<<"+">>, <<text>>)

Hunks ==
  {Change(n, old, "c") : n \in 1 .. 3, old \in {"a", "b"}}
    \cup {Context(n, "a", "b", "c") : n \in 1 .. 2}
    \cup {Removal(n, "a") : n \in {1, 3}}

Blank == <<[kind |-> "blank"]>>
Other == <<[kind |-> "other"]>>

(* One file with one or two hunks; two files; and what the parser refuses. *)
OneFile == {Headers(Top) \o h : h \in Hunks} \cup {Headers(Top) \o g \o Blank \o h : g, h \in Hunks}
TwoFiles ==
  {Headers(Top) \o Change(1, "a", "c") \o Headers(p) \o h :
     p \in {Top, In}, h \in {Change(1, "a", "b"), Change(1, "c", "b"), Change(1, "b", "c")}}
Odd ==
  {<< >>, Headers(Top) \o Change(1, "a", "c") \o Other, Change(1, "a", "c"),
   Headers(Top), Headers(Top) \o Change(1, "a", "c") \o Tail(Headers(Top)),
   <<[kind |-> "---", path |-> Top]>>, Headers(New) \o Creation("a"),
   Headers(Relative) \o Creation("a"), Headers(Top) \o Change(1, "a", "c") \o Headers(DevNull),
   Headers(Top) \o <<HunkHeader("@@", 1, 1, 2)>> \o Body(<<"-">>, <<"a">>),
   Headers(UnderTop) \o Creation("a"), Headers(Sub) \o Creation("a")}

Patch(text) == [tool |-> "apply_patch", patch |-> text]
Replace(p, old, new, count) ==
  [tool |-> "str_replace", path |-> p, old |-> old, new |-> new, count |-> count]
WriteTo(p, text) == [tool |-> "write_file", path |-> p, content |-> text]
Read(p) == [tool |-> "read_file", path |-> p]
Info(p) == [tool |-> "file_info", path |-> p]
List(p, depth) == [tool |-> "list_files", path |-> p, maxDepth |-> depth]
Glob(p, names, limit) == [tool |-> "glob_search", path |-> p, pattern |-> names, limit |-> limit]
Move(p, q) == [tool |-> "move_path", from |-> p, to |-> q]
Make(p, deep) == [tool |-> "mkdir", path |-> p, recursive |-> deep]

Edits ==
  {Replace(Top, "a", "c", Unlimited), Replace(Top, "a", "c", 1), Replace(Top, "a", "a", Unlimited),
   Replace(In, "a", "b", 0), Replace(In, "c", "b", 0), Replace(In, "", "b", Unlimited), Replace(New, "a", "b", Unlimited),
   WriteTo(In, <<"c">>), WriteTo(New, <<"c">>), WriteTo(UnderTop, <<"c">>), WriteTo(<<"g", "d", "f">>, <<"c">>), WriteTo(Sub, <<"c">>),
   WriteTo(New, << >>), WriteTo(In, << >>), WriteTo(Relative, << >>), Read(Top), Read(In), Read(New),
   Info(Sub), Info(New), List(<< >>, 0), List(<< >>, 3), List(Sub, 3), List(Top, 0),
   Glob(<< >>, {"f", "g"}, 1), Glob(Sub, {"f"}, 2), Glob(New, {"f"}, 2),
   Move(In, New), Move(In, Top), Move(Sub, <<"e">>), Move(Sub, In), Move(Top, Top),
   Make(<<"e">>, FALSE), Make(New, TRUE), Make(New, FALSE), Make(Top, TRUE), Make(Sub, TRUE), Make(UnderTop, TRUE)}

(* A third call, beside edits that may cross it.                           *)
Third == {Replace(Top, "b", "a", Unlimited), WriteTo(In, <<"a", "b">>), Move(Sub, <<"e">>)}

Uses(in, other, third) == (c1 :> in) @@ (c2 :> other) @@ (c3 :> third)
Single(in) == Uses(in, None, None)

MCMessages ==
  {Single(Patch(p)) : p \in OneFile \cup TwoFiles \cup Odd}
    \cup {Uses(Patch(Headers(Top)), Move(Top, <<"e">>), None)}
    \cup {Uses(in, other, third) :
            in \in Edits \cup {Patch(p) : p \in TwoFiles},
            other \in Edits,
            third \in Third \cup {None}}

(* A git diff: the hunk header names the section the hunk is in.           *)
HeadedMessages ==
  {Single(Patch(Headers(Top) \o <<HunkHeader("@@ text", 1, 1, 1)>> \o Body(<<"-", "+">>, <<"a", "c">>)))}
=============================================================================
