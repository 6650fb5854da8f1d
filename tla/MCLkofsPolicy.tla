--------------------------- MODULE MCLkofsPolicy ---------------------------
(***************************************************************************)
(* A subject of every class, two users, at least one path for every rule,  *)
(* the spellings the parser accepts and one text for every reason to       *)
(* refuse.  Names are one byte long; the ones that are joined are longer,  *)
(* so that the limit on the length of a path ends the walks.               *)
(***************************************************************************)
EXTENDS LkofsPolicy

Subject(class, app, user) == [class |-> class, app |-> app, user |-> user]

MCSubjects ==
  { Subject("Kernel", None, None), Subject("SystemUpdater", None, None),
    Subject("SystemService", None, None), Subject("Driver", None, None),
    Subject("UserShell", None, "adam"), Subject("UserApp", "editor", "adam"),
    Subject("UserApp", "editor", None), Subject("SandboxedApp", "game", "adam"),
    Subject("AiAgent", None, "adam"), Subject("CompatibilityRuntime", None, "adam") }

Name(word) == [EmptyName EXCEPT !.word = word, !.bytes = 1]
Upper(word) == [Name(word) EXCEPT !.spelling = "upper"]
Marked(word, mark) == [Name(word) EXCEPT !.marks = {mark}]
Long(name, n) == [name EXCEPT !.bytes = n]

Text(prefix, parts) == [prefix |-> prefix, parts |-> parts]
Full(words) == Text("LKO", [i \in DOMAIN words |-> Name(words[i])])
Short(words) == Text("", [i \in DOMAIN words |-> Name(words[i])])

GoodTexts ==
  { Full(w) : w \in
    { << >>, <<"System", "Kernel">>, <<"Config">>, <<"Config", "Security">>, <<"Users">>,
      <<"Users", "adam">>, <<"Users", "eve", "doc">>, <<"Users", "adam", "AppData", "game">>,
      <<"Services", "net">>, <<"Apps", "editor">>, <<"Cache", "c">>, <<"AI", "Models">>,
      <<"Runtime", "Loko">> } }
  \cup
  { Short(w) : w \in
    { <<"Drivers", "d">>, <<"Services", "Security", "rules">>, <<"Users", "adam", "doc">>,
      <<"Users", "eve", "AppData", "game", "s">>, <<"Apps", "game", "bin">>, <<"Temp", "t">>,
      <<"Logs", "l">>, <<"AI", "Memory", "m">> } }
  \cup
  { Text("lko", <<Upper("Users"), Upper("adam"), Upper("doc")>>),
    Text("lko", <<Upper("Config"), Upper("Security"), EmptyName>>),
    Text("LKO", <<EmptyName, EmptyName>>), Text("", <<EmptyName>>),
    Text("", <<Name("Users"), Name("adam"), Name("doc"), EmptyName>>) }

BadTexts ==
  { Text("", << >>), Text("other", <<Name("System")>>), Full(<<"Wrong">>),
    Full(<<"Users", "adam", "doc", "a", "b">>), Text("LKO", <<Marked("System", "NonAscii")>>),
    Text("LKO", <<Name("Users"), EmptyName, Name("adam")>>),
    Text("", <<Name("Users"), Marked("up", "RelativeComponent")>>),
    Text("LKO", <<Name("Users"), Marked("back", "BackslashSeparator")>>),
    Text("LKO", <<Name("Users"), Name("eve"), EmptyName, EmptyName>>) }

MCTexts == GoodTexts \cup BadTexts

MCTyped ==
  { <<Long(Upper("Security"), 3)>>, <<Long(Name("System"), 3)>>, <<Name("a"), Name("b")>>,
    <<EmptyName>>, <<Long(Name("long"), 4)>>, <<Marked("up", "RelativeComponent")>>, <<Marked("bidi", "BidirectionalOverride")>> }

\* A home, a file in it, and a file in another one.
MCGrantable ==
  { Full(<<"Users", "adam">>), Text("lko", <<Upper("Users"), Upper("adam"), Upper("doc")>>),
    Full(<<"Users", "eve", "doc">>) }

FewSubjects == { Subject("CompatibilityRuntime", None, "adam"), Subject("AiAgent", None, "adam"),
                 Subject("UserShell", None, "adam") }

=============================================================================
