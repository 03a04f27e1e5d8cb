------------------------------- MODULE Parser -------------------------------
(***************************************************************************)
(* The front end: src/src/lexer.c turns a text into tokens, src/src/       *)
(* parser.c is a recursive-descent parser with one token of lookahead, and *)
(* src/src/include.c parses the files a website includes and merges them.  *)
(*                                                                         *)
(* The call stack is `stack`: one frame per parse function that is active. *)
(* `goal` is what the innermost one reads next: an item of its loop, or    *)
(* what must follow the keyword it has just read.  The grammar is in       *)
(* tables: the items of each kind of block, and what may follow each.      *)
(*                                                                         *)
(* A text is chosen as it is read: the token after the current one is any  *)
(* that the lexer can return there.  Of all the lists of declarations that *)
(* a site has, one is followed, `focus`; it is chosen at the start.        *)
(***************************************************************************)
EXTENDS Integers, Sequences, FiniteSets

CONSTANTS
  Main,         \* the file given on the command line
  Paths,        \* the names that an include may give
  MaxIncludes,  \* MAX_INCLUDES
  Followed,     \* the kinds of declarations of which one is followed
  MaxDecls      \* bound on the declarations of that kind in a text

Lists    == {"page", "layout", "style", "query", "transform", "script", "api",
             "partial"}
Settings == {"auth", "email"}

ASSUME ParserAssumption ==
  /\ Main \notin Paths
  /\ MaxIncludes \in Nat /\ MaxDecls \in Nat
  /\ Followed \subseteq Lists \cup Settings

-----------------------------------------------------------------------------
(* The grammar: which keyword starts an item of a block, and what follows  *)

ProgramItems ==
  [NAME |-> {"string"}, AUTHOR |-> {"string"}, VERSION |-> {"string"},
   INCLUDE |-> {"path"}, PORT |-> {"port"}, DATABASE |-> {"value"},
   AUTH |-> {"auth"}]

ContentItems ==
  [PAGE |-> {"page"}, LAYOUT |-> {"layout"}, AUTH |-> {"auth"},
   STYLES |-> {"styles"}, API |-> {"api"}, QUERY |-> {"query"},
   TRANSFORM |-> {"transform"}, SCRIPT |-> {"script"},
   PARTIAL |-> {"partial"}, EMAIL |-> {"email"}]

PageItems ==
  [NAME |-> {"string"}, ROUTE |-> {"string"}, METHOD |-> {"string"},
   LAYOUT |-> {"string"}, REDIRECT |-> {"string"}, FIELDS |-> {"fields"},
   HTML |-> {"template"}, MUSTACHE |-> {"template"},
   ERROR |-> {"response"}, SUCCESS |-> {"response"},
   PIPELINE |-> {"pipeline"}, REFERENCE_DATA |-> {"pipeline"}]

LayoutItems ==
  [NAME |-> {"string"}, HTML |-> {"template"}, MUSTACHE |-> {"template"}]

ApiItems ==
  [ROUTE |-> {"string"}, METHOD |-> {"string"}, PIPELINE |-> {"pipeline"},
   FIELDS |-> {"fields"}]

(* A property of a field is any string.  Type, required and format take a  *)
(* string, range and length a range, and the others, unknown, nothing.     *)
FieldsItems == [STRING |-> {"field"}]
FieldItems  == [STRING |-> {"string", "range", "item"}]

QueryItems ==
  [NAME |-> {"string"}, PARAMS |-> {"params"}, SQL |-> {"template"}]

ParamsItems == [STRING |-> {"comma"}]

TransformItems == [NAME |-> {"string"}, JQ |-> {"template"}]

ScriptItems == [NAME |-> {"string"}, LUA |-> {"template"}]

PipelineItems ==
  [JQ |-> {"template"}, LUA |-> {"template"}, SQL |-> {"template"},
   EXECUTE_QUERY |-> {"queryName"}, EXECUTE_TRANSFORM |-> {"string"},
   EXECUTE_SCRIPT |-> {"string"}]

ResponseItems ==
  [REDIRECT |-> {"string"}, HTML |-> {"template"}, MUSTACHE |-> {"template"}]

PartialItems == [NAME |-> {"string"}, MUSTACHE |-> {"template"}]

AuthItems   == [SALT |-> {"value"}, GITHUB |-> {"github"}]
GithubItems == [CLIENT_ID |-> {"value"}, CLIENT_SECRET |-> {"value"}]

EmailItems         == [SENDGRID |-> {"sendgrid"}, TEMPLATE |-> {"templateName"}]
EmailTemplateItems == [SUBJECT |-> {"string"}, MUSTACHE |-> {"template"}]
SendgridItems ==
  [API_KEY |-> {"value"}, FROM_EMAIL |-> {"value"}, FROM_NAME |-> {"value"}]

(* The lexer returns CSS only when no brace follows, and then `styles`     *)
(* rejects it.                                                             *)
StylesItems == [STRING |-> {"styleBlock"}, RAW_BLOCK |-> {"item"}]

StyleProps == [STRING |-> {"string"}]

Items ==
  [program |-> ProgramItems, content |-> ContentItems, page |-> PageItems,
   layout |-> LayoutItems, api |-> ApiItems, fields |-> FieldsItems,
   field |-> FieldItems, query |-> QueryItems, params |-> ParamsItems,
   transform |-> TransformItems, script |-> ScriptItems,
   pipeline |-> PipelineItems, response |-> ResponseItems,
   partial |-> PartialItems, auth |-> AuthItems, github |-> GithubItems,
   email |-> EmailItems, emailTemplate |-> EmailTemplateItems,
   sendgrid |-> SendgridItems, styles |-> StylesItems,
   styleBlock |-> StyleProps]

Blocks == DOMAIN Items

(* What a goal that is one token accepts: consume, parseTemplate and the   *)
(* tests on the current token's type.                                      *)
Accepts ==
  [website |-> {"WEBSITE"},
   string |-> {"STRING"}, value |-> {"ENV_VAR", "STRING"},
   template |-> {"RAW_BLOCK", "STRING"}, queryName |-> {"STRING", "DYNAMIC"},
   templateName |-> {"STRING"}, path |-> {"STRING"}, range |-> {"RANGE"},
   port |-> {"ENV_VAR", "NUMBER"}, comma |-> {"COMMA"},
   cssOpened |-> {"CLOSE_BRACE"}]

Goals == DOMAIN Accepts
         \cup {"item", "open", "styleStart", "cssRead", "end", "processInclude"}

Opener(b) == IF b = "params" THEN "OPEN_BRACKET" ELSE "OPEN_BRACE"
Closer(b) == IF b = "params" THEN "CLOSE_BRACKET" ELSE "CLOSE_BRACE"

-----------------------------------------------------------------------------
(* The lexer: which tokens can come next *)

RawKeywords == {"HTML", "SQL", "JQ", "LUA", "MUSTACHE"}

Keywords == {"WEBSITE", "DYNAMIC", "CSS"}
            \cup (UNION {DOMAIN Items[b] : b \in Blocks} \ {"STRING", "RAW_BLOCK"})

(* UNKNOWN stands for the tokens that no rule of the parser accepts: the   *)
(* error tokens of the lexer, parentheses, the keywords it does not use.   *)
(* `sql "..."` is one token of its own, RAW_STRING, of that sort too.  So  *)
(* is a number outside 1..65535: a port is the only place for a number,    *)
(* and parsePort refuses that one there; NUMBER is one that may be a port. *)
Tokens == Keywords \cup {"STRING", "NUMBER", "RANGE", "ENV_VAR", "RAW_BLOCK",
                         "OPEN_BRACE", "CLOSE_BRACE", "OPEN_BRACKET",
                         "CLOSE_BRACKET", "COMMA", "EOF", "UNKNOWN"}

(* Between brackets every word is a string.                                *)
WordTokens(inBrackets) == IF inBrackets THEN {"STRING"} ELSE Keywords

(* A brace after a raw keyword, or after css, starts raw text, which is    *)
(* one token, UNKNOWN if it does not end.  `raw` is whether                *)
(* lexer->previous is a raw keyword.                                       *)
getNextToken(lx) ==
  IF lx.atEnd THEN {"EOF"}
  ELSE WordTokens(lx.inBrackets)
       \cup {"STRING", "NUMBER", "RANGE", "ENV_VAR", "CLOSE_BRACE", "COMMA",
             "OPEN_BRACKET", "CLOSE_BRACKET", "EOF", "UNKNOWN"}
       \cup (IF lx.raw THEN {} ELSE {"OPEN_BRACE"})
       \cup (IF lx.inBrackets THEN {} ELSE {"RAW_BLOCK"})

(* Numbers, ranges and raw text after a raw keyword are returned before    *)
(* the token is stored as the previous one.                                *)
AfterToken(lx, t) ==
  [raw |-> \/ t \in RawKeywords
           \/ (lx.raw /\ t \in {"NUMBER", "RANGE", "RAW_BLOCK", "EOF"}),
   inBrackets |-> \/ t = "OPEN_BRACKET"
                  \/ (lx.inBrackets /\ t # "CLOSE_BRACKET"),
   atEnd |-> t = "EOF"]

initLexer == [raw |-> FALSE, inBrackets |-> FALSE, atEnd |-> FALSE]

-----------------------------------------------------------------------------
VARIABLES
  stack,     \* the active parse functions: block, and the items it has seen
  goal,
  current, lexer,
  file,      \* the file being read: Main, or the name of an included one
  outer,     \* the lexer of Main's parser while another runs
  included,  \* includeState.included_files
  hadError,  \* of the parser that runs
  reported,  \* whether any parser has reported an error
  focus,     \* the kind of the declarations that are followed
  count,     \* how many of them have been read
  site,      \* the list of them in Main's website
  part,      \* the list of them in the website of an included file
  depth,     \* braces opened and not yet closed
  verdict    \* what parseWebsite returns: "none" yet, "site" or "error"

reader == <<current, lexer>>
files  == <<file, outer, included>>
lists  == <<count, site, part>>
vars == <<stack, goal, current, lexer, file, outer, included, hadError,
          reported, focus, count, site, part, depth, verdict>>

Lexers == [raw : BOOLEAN, inBrackets : BOOLEAN, atEnd : BOOLEAN]

(* The items that matter later in their block are remembered.              *)
Remembered(b) == IF b = "partial" THEN {"NAME", "MUSTACHE"}
                 ELSE IF b = "response" THEN {"REDIRECT"} ELSE {}
Frames == [block : Blocks, got : SUBSET {"NAME", "MUSTACHE", "REDIRECT"}]

TypeOK ==
  /\ stack \in Seq(Frames)
  /\ goal \in Goals
  /\ current \in Tokens /\ lexer \in Lexers
  /\ file \in {Main} \cup Paths
  /\ outer \in Lexers
  /\ included \subseteq Paths
  /\ hadError \in BOOLEAN /\ reported \in BOOLEAN
  /\ focus \in Followed
  /\ count \in Nat /\ site \in Seq(Nat) /\ part \in Seq(Nat)
  /\ depth \in Int
  /\ verdict \in {"none", "site", "error"}

-----------------------------------------------------------------------------
Done   == verdict # "none"
Top    == stack[Len(stack)]
Block  == Top.block
Below  == SubSeq(stack, 1, Len(stack) - 1)
Active == ~Done /\ ~hadError /\ stack # <<>>

(* Whether token t, after what the parser has on its stack st, starts one  *)
(* more of the followed declarations.                                      *)
Declares(b, g) == \/ g = focus
                  \/ focus = "style" /\ b = "styles"
StartsOne(st, t) ==
  /\ st # <<>>
  /\ LET b == st[Len(st)].block
         i == IF b = "program" /\ t \notin DOMAIN ProgramItems
              THEN ContentItems ELSE Items[b]
     IN  t \in DOMAIN i /\ \E g \in i[t] : Declares(b, g)

Weight(t) == IF t \in {"OPEN_BRACE", "OPEN_BRACKET"} THEN 1
             ELSE IF t \in {"CLOSE_BRACE", "CLOSE_BRACKET"} THEN -1 ELSE 0

(* advanceParser; MaxDecls bounds the text that is offered.                *)
Advance ==
  /\ depth' = depth + Weight(current)
  /\ \E t \in getNextToken(lexer) :
       /\ count' >= MaxDecls => ~StartsOne(stack', t)
       /\ current' = t
       /\ lexer' = AfterToken(lexer, t)

Mark(t) == [stack EXCEPT ![Len(stack)].got = @ \cup ({t} \cap Remembered(Block))]

(* A declaration is complete: it goes to the end of its list, and a        *)
(* setting takes the place of the one before.                              *)
Put(list) == IF focus \in Lists THEN Append(list, count') ELSE <<count'>>
Declare(yes) ==
  /\ count' = IF yes THEN count + 1 ELSE count
  /\ site' = IF yes /\ file = Main THEN Put(site) ELSE site
  /\ part' = IF yes /\ file # Main THEN Put(part) ELSE part

Init ==
  /\ stack = <<[block |-> "program", got |-> {}]>>
  /\ goal = "website"
  /\ current \in getNextToken(initLexer)
  /\ lexer = AfterToken(initLexer, current)
  /\ file = Main
  /\ outer = initLexer
  /\ included = {}
  /\ hadError = FALSE /\ reported = FALSE
  /\ focus \in Followed
  /\ count = 0 /\ site = <<>> /\ part = <<>>
  /\ depth = 0
  /\ verdict = "none"

-----------------------------------------------------------------------------
(* Steps that read a token *)

(* parseResponseBlock refuses a template after a redirect.                 *)
AtItem ==
  /\ goal \in {"item", "styleStart"}
  /\ current \in DOMAIN Items[Block]
  /\ Block = "response" /\ "REDIRECT" \in Top.got
     => current \notin {"HTML", "MUSTACHE"}

AtOperand == goal \in DOMAIN Accepts /\ current \in Accepts[goal]

AtOpening == goal = "open" /\ current = Opener(Block)

AtCss == goal = "styleStart" /\ current \in {"CSS", "RAW_BLOCK"}

AtCssBraces == goal = "cssRead" /\ current = "OPEN_BRACE"

(* What parsePartial asks for before it looks for the closing brace.       *)
Complete(frame) ==
  frame.block = "partial" => {"NAME", "MUSTACHE"} \subseteq frame.got

(* Mutant: a block that the end of the text cuts off is taken as it is.    *)
AtClosing_Eof ==
  /\ goal \in {"item", "styleStart", "cssRead", "end", "comma"}
  /\ Block # "content"
  /\ current \in {Closer(Block), "EOF"}
  /\ Complete(Top)

AtClosing ==
  /\ goal \in {"item", "styleStart", "cssRead", "end", "comma"}
  /\ Block # "content"
  /\ current = Closer(Block)
  /\ Complete(Top)

(* The keyword of an item; a block is parsed by a function of its own.     *)
ParseItem ==
  /\ Active
  /\ AtItem
  /\ \E g \in Items[Block][current] :
       /\ IF g \in Blocks
          THEN /\ stack' = Append(Mark(current), [block |-> g, got |-> {}])
               /\ goal' = "open"
          ELSE /\ stack' = Mark(current)
               /\ goal' = g
       /\ Declare(Block = "styles" /\ g = "item" /\ focus = "style")
  /\ Advance
  /\ UNCHANGED <<files, hadError, reported, focus, verdict>>

(* consume, and the tests of the current token's type.  The token after    *)
(* the name of an included file is chosen when Main's parser goes on.      *)
ParseOperand ==
  /\ Active
  /\ AtOperand
  /\ goal # "cssOpened"
  /\ IF goal = "templateName"
     THEN stack' = Append(stack, [block |-> "emailTemplate", got |-> {}])
     ELSE UNCHANGED stack
  /\ goal' = IF goal \in {"templateName", "website"} THEN "open"
             ELSE IF goal = "path" THEN "processInclude" ELSE "item"
  /\ UNCHANGED lists
  /\ IF goal = "path" THEN UNCHANGED <<reader, depth>> ELSE Advance
  /\ UNCHANGED <<files, hadError, reported, focus, verdict>>

Open ==
  /\ Active
  /\ AtOpening
  /\ goal' = IF Block = "styleBlock" THEN "styleStart" ELSE "item"
  /\ UNCHANGED <<stack, lists>>
  /\ Advance
  /\ UNCHANGED <<files, hadError, reported, focus, verdict>>

Kind(b) == IF b = "styleBlock" THEN "style" ELSE b

(* The closing brace: the parse function returns to its caller.            *)
Close ==
  /\ Active
  /\ AtClosing
  /\ stack' = Below
  /\ goal' = "item"
  /\ Declare(Kind(Block) = focus)
  /\ Advance
  /\ UNCHANGED <<files, hadError, reported, focus, verdict>>

(* parseStyleBlock: raw CSS in place of properties, and a pair of braces   *)
(* that may follow it.                                                     *)
ReadCss ==
  /\ Active
  /\ AtCss
  /\ goal' = "cssRead"
  /\ UNCHANGED <<stack, lists>>
  /\ Advance
  /\ UNCHANGED <<files, hadError, reported, focus, verdict>>

OpenCss ==
  /\ Active
  /\ AtCssBraces
  /\ goal' = "cssOpened"
  /\ UNCHANGED <<stack, lists>>
  /\ Advance
  /\ UNCHANGED <<files, hadError, reported, focus, verdict>>

CloseCss ==
  /\ Active
  /\ AtOperand
  /\ goal = "cssOpened"
  /\ goal' = "end"
  /\ UNCHANGED <<stack, lists>>
  /\ Advance
  /\ UNCHANGED <<files, hadError, reported, focus, verdict>>

Read == \/ ParseItem \/ ParseOperand \/ Open \/ Close
        \/ ReadCss \/ OpenCss \/ CloseCss

-----------------------------------------------------------------------------
(* Steps that look at the current token and leave it *)

AtEnd == current \in {"CLOSE_BRACE", "EOF"}

(* parseProgram leaves every other item to parseWebsiteNode.               *)
AtContent ==
  /\ goal = "item" /\ Block = "program"
  /\ ~AtEnd /\ current \notin DOMAIN ProgramItems

EnterContent ==
  /\ Active
  /\ AtContent
  /\ stack' = Append(stack, [block |-> "content", got |-> {}])
  /\ UNCHANGED <<goal, reader, files, hadError, reported, focus, lists,
                 depth, verdict>>

(* Mutant: the loop also ends at a token that starts no declaration.       *)
ContentOver_Unknown ==
  goal = "item" /\ Block = "content" /\ current \notin DOMAIN ContentItems

(* The loop of parseWebsiteNode ends.                                      *)
ContentOver == goal = "item" /\ Block = "content" /\ AtEnd

LeaveContent ==
  /\ Active
  /\ file = Main
  /\ ContentOver
  /\ stack' = Below
  /\ UNCHANGED <<goal, reader, files, hadError, reported, focus, lists,
                 depth, verdict>>

(* processInclude up to parseWebsiteContent: another parser begins.        *)
BeginInclude(p) ==
  /\ Active
  /\ goal = "processInclude"
  /\ p \notin included
  /\ Cardinality(included) < MaxIncludes
  /\ included' = included \cup {p}
  /\ outer' = lexer
  /\ file' = p
  /\ stack' = Append(stack, [block |-> "content", got |-> {}])
  /\ goal' = "item"
  /\ current' \in {t \in getNextToken(initLexer) :
                     count >= MaxDecls => ~StartsOne(stack', t)}
  /\ lexer' = AfterToken(initLexer, current')
  /\ UNCHANGED <<hadError, reported, focus, lists, depth, verdict>>

(* An error: every parse function that is active returns.  What is read    *)
(* and built on the way out is not used, and left out.                     *)
Fail ==
  /\ hadError' = TRUE /\ reported' = TRUE
  /\ current' = "EOF"
  /\ UNCHANGED <<stack, goal, lexer, files, focus, lists, depth, verdict>>

(* A name seen before, too many of them, or a file that cannot be read.    *)
RefuseInclude == Active /\ goal = "processInclude" /\ Fail

(* Mutant: the list of the included website takes the place of the list.   *)
Merged_Replaced(list, more) == more

Merged(list, more) == list \o more

(* Mutant: an included file that did not parse is skipped.                 *)
FailedInclude_Skipped(failed) == FALSE

(* The value of processInclude decides whether Main has an error too.      *)
FailedInclude(failed) == failed

(* The rest of processInclude: its lists go to the end of Main's lists,    *)
(* settings are left behind, and Main's parser goes on where it was.       *)
FinishInclude ==
  /\ ~Done /\ file # Main
  /\ IF hadError THEN TRUE ELSE ContentOver
  /\ site' = IF ~hadError /\ focus \in Lists THEN Merged(site, part) ELSE site
  /\ part' = <<>>
  /\ count' = count
  /\ hadError' = FailedInclude(hadError)
  /\ stack' = IF hadError' THEN <<>> ELSE Below
  /\ goal' = "item"
  /\ \E t \in getNextToken(outer) :
       /\ count >= MaxDecls => ~StartsOne(stack', t)
       /\ current' = IF hadError' THEN "EOF" ELSE t
       /\ lexer' = AfterToken(outer, current')
  /\ file' = Main
  /\ UNCHANGED <<outer, included, reported, focus, depth, verdict>>

(* No rule takes the current token.                                        *)
Reject ==
  /\ Active
  /\ goal # "processInclude"
  /\ ~(\/ AtItem \/ AtOperand \/ AtOpening \/ AtClosing \/ AtCss \/ AtCssBraces
       \/ AtContent \/ ContentOver)
  /\ Fail

(* The end of parseWebsite.                                                *)
Judge ==
  /\ ~Done /\ file = Main
  /\ hadError \/ stack = <<>>
  /\ verdict' = IF hadError THEN "error" ELSE "site"
  /\ UNCHANGED <<stack, goal, reader, files, hadError, reported, focus, lists,
                 depth>>

Turn == \/ EnterContent \/ LeaveContent \/ Reject \/ Judge
        \/ (\E p \in Paths : BeginInclude(p)) \/ RefuseInclude \/ FinishInclude

Finished == Done /\ UNCHANGED vars

Next == Read \/ Turn \/ Finished

Spec == Init /\ [][Next]_vars /\ WF_vars(Next)

-----------------------------------------------------------------------------
(* Properties *)

(* The frames of blocks that are written between braces or brackets.       *)
Framed(st) == {i \in 1..Len(st) : st[i].block # "content"}

(* Of these, those whose opening brace has been read, and the pair of      *)
(* braces that may follow raw CSS.                                         *)
Owed ==
  Cardinality(Framed(stack))
  + (IF goal = "cssOpened" THEN 1 ELSE 0)
  - (IF goal \in {"open", "website"} THEN 1 ELSE 0)

(* Of the tokens it reads the parser closes exactly the braces and         *)
(* brackets that it opened, however blocks nest and in whatever file they  *)
(* are: no parse function ends at a brace of another block, and a site is  *)
(* accepted at the brace that closes `website'.  What follows that brace   *)
(* (`website { } }') or a stray one in an included file is never read, so  *)
(* nothing is said of a text as a whole.                                   *)
BracesMatch ==
  /\ ~hadError => depth = Owed
  /\ verdict = "site" => depth = 0

(* The stack of parse functions: frames, lookahead and lists are of the    *)
(* kinds that the parser knows, and the braces that it has read match.      *)
StackSound == TypeOK /\ BracesMatch

(* A site that is accepted has every declaration that was read, in Main or *)
(* in an included file, once and in the order of the text.  (What follows  *)
(* a stray brace in an included file is not read.)                         *)
NothingLost ==
  verdict = "site" /\ focus \in Lists => site = [i \in 1..count |-> i]

(* An error in any file, also one reported by the parser of an included    *)
(* file, means that there is no site.                                      *)
NoSiteAfterError == reported => verdict # "site"

(* The parser never turns in place: until it has its verdict it goes on    *)
(* reading.                                                                *)
AlwaysReads == <>Done \/ []<><<Read>>_vars
=============================================================================
