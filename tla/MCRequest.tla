---------------------------- MODULE MCRequest ----------------------------
(* A small site.  The APIs and pages overlap: a parameter and a literal,   *)
(* the same route twice, an API before a page.                             *)
EXTENDS Request

(* An API wants a number, the pages a short text, a longer one, a time.    *)
Age == "name" :> [Field("number", TRUE) EXCEPT !.min = 2, !.max = 5]
Word == "name" :> [Field("string", TRUE) EXCEPT !.maxLength = 3]
Title == "name" :> [Field("string", TRUE) EXCEPT !.minLength = 5, !.maxLength = 8]
Clock == "name" :> [Field("string", FALSE) EXCEPT !.format = "time"]

(* The empty text and one like "12:30": one page takes the empty one only, *)
(* though the field is required, the others the second one only.  Of the   *)
(* numbers the first is rounded into the API's range, the second out of    *)
(* it, the third wraps.                                                    *)
MCTexts == {Text(0, NotANumber, {}), Text(5, NotANumber, {"time"})}
MCJsonValues ==
  {Number(15, {}), Number(14, {}), Number(350, {}), Text(1, 9, {}), Other, NotJson}

MCApis == <<
  [method |-> "POST", route |-> <<":any", "edit">>, fields |-> <<>>, pipeline |-> <<"sql">>],
  [method |-> "POST", route |-> <<"notes">>, fields |-> Age, pipeline |-> <<"jq", "sql">>],
  [method |-> "GET", route |-> <<"notes", "new">>, fields |-> <<>>, pipeline |-> <<"jq">>],
  [method |-> "GET", route |-> <<"notes", ":id">>, fields |-> <<>>, pipeline |-> <<"sql", "lua">>],
  [method |-> "GET", route |-> <<"notes", "new">>, fields |-> <<>>, pipeline |-> <<"sql">>],
  [method |-> "OPTIONS", route |-> <<"notes">>, fields |-> <<>>,
   pipeline |-> <<"jq", "sql">>]>>
MCPages == <<
  [route |-> <<":part", "new">>, fields |-> Title, reference |-> <<>>, pipeline |-> <<>>,
   redirect |-> FALSE],
  [route |-> <<"form">>, fields |-> Word, reference |-> <<"jq">>, pipeline |-> <<"lua">>,
   redirect |-> TRUE],
  [route |-> <<"news">>, fields |-> Clock, reference |-> <<>>, pipeline |-> <<"jq">>,
   redirect |-> FALSE]>>
MCApiHash(route, method) == IF method = "GET" THEN 1 + (Len(route) % 2) ELSE 2
MCPageHash(route) == 1 + (Len(route) % 2)
MCSpecial == [GET |-> {<<"styles.css">>}, BODY |-> {<<"login">>}]

Ask(method, url, content) == [method |-> method, url |-> url, content |-> content]
(* The first client sends bodies or is answered without a pipeline; the    *)
(* second one's request runs a pipeline meanwhile.                         *)
Uploads == {Ask("POST", <<"notes">>, "json"), Ask("POST", <<"notes">>, "form"),
            Ask("POST", <<"notes">>, "multipart"), Ask("POST", <<"form">>, "form"),
            Ask("PUT", <<"form">>, "form"), Ask("POST", <<"login">>, "form"),
            Ask("POST", <<"form">>, "text"), Ask("PATCH", <<"form">>, "none"),
            Ask("GET", <<"about", "new">>, "none"), Ask("GET", <<"nothing">>, "none"),
            Ask("OPTIONS", <<"notes">>, "none"), Ask("GET", <<"styles.css">>, "none"),
            Ask("GET", <<"styles.css">>, "json"), Ask("GET", <<"news">>, "none"),
            Ask("GET", <<"notes", "new">>, "form"), Ask("POST", <<"news">>, "form"),
            Ask("POST", <<"about", "new">>, "form")}
Others == {Ask("GET", <<"notes", "7">>, "none")}
MCPlacements == {[c \in Conns |-> "t1"], "c1" :> "t1" @@ "c2" :> "t2"}
MCMessages == "c1" :> Uploads @@ "c2" :> Others
=============================================================================
