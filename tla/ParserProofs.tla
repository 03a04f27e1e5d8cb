---------------------------- MODULE ParserProofs ----------------------------
(***************************************************************************)
(* Proofs about module Parser, for texts of any length, any nesting, and   *)
(* any names of files: the parser's state has its type, the braces that it *)
(* has read match, an error is never forgotten, and no declaration that    *)
(* was read is lost.                                                       *)
(***************************************************************************)
EXTENDS Parser, FiniteSetTheorems, SequenceTheorems, TLAPS

Brackets == {"OPEN_BRACE", "CLOSE_BRACE", "OPEN_BRACKET", "CLOSE_BRACKET"}

(* What may follow the keyword of an item: a goal of one token that owes   *)
(* no brace, or a block.                                                   *)
Follows == (Goals \ {"open", "website", "cssOpened"})
           \cup (Blocks \ {"program", "content"})

LEMMA BlockNames ==
  Blocks = {"program", "content", "page", "layout", "api", "fields", "field",
            "query", "params", "transform", "script", "pipeline", "response",
            "partial", "auth", "github", "email", "emailTemplate", "sendgrid",
            "styles", "styleBlock"}
BY DEF Blocks, Items

LEMMA GoalNames ==
  Goals = {"website", "string", "value", "template", "queryName",
           "templateName", "path", "range", "port", "comma", "cssOpened",
           "item", "open", "styleStart", "cssRead", "end", "processInclude"}
BY DEF Goals, Accepts

(* The tables name only goals and blocks, and no bracket starts an item.   *)
TableOK(table) ==
  \A t \in DOMAIN table : table[t] \subseteq Follows /\ t \notin Brackets

LEMMA Tables == \A b \in Blocks : TableOK(Items[b])
<1>1. TableOK(ProgramItems)
  BY BlockNames, GoalNames DEF TableOK, ProgramItems, Follows, Brackets
<1>2. TableOK(ContentItems)
  BY BlockNames, GoalNames DEF TableOK, ContentItems, Follows, Brackets
<1>3. TableOK(PageItems)
  BY BlockNames, GoalNames DEF TableOK, PageItems, Follows, Brackets
<1>4. TableOK(LayoutItems)
  BY BlockNames, GoalNames DEF TableOK, LayoutItems, Follows, Brackets
<1>5. TableOK(ApiItems)
  BY BlockNames, GoalNames DEF TableOK, ApiItems, Follows, Brackets
<1>6. TableOK(FieldsItems)
  BY BlockNames, GoalNames DEF TableOK, FieldsItems, Follows, Brackets
<1>7. TableOK(FieldItems)
  BY BlockNames, GoalNames DEF TableOK, FieldItems, Follows, Brackets
<1>8. TableOK(QueryItems)
  BY BlockNames, GoalNames DEF TableOK, QueryItems, Follows, Brackets
<1>9. TableOK(ParamsItems)
  BY BlockNames, GoalNames DEF TableOK, ParamsItems, Follows, Brackets
<1>10. TableOK(TransformItems)
  BY BlockNames, GoalNames DEF TableOK, TransformItems, Follows, Brackets
<1>11. TableOK(ScriptItems)
  BY BlockNames, GoalNames DEF TableOK, ScriptItems, Follows, Brackets
<1>12. TableOK(PipelineItems)
  BY BlockNames, GoalNames DEF TableOK, PipelineItems, Follows, Brackets
<1>13. TableOK(ResponseItems)
  BY BlockNames, GoalNames DEF TableOK, ResponseItems, Follows, Brackets
<1>14. TableOK(PartialItems)
  BY BlockNames, GoalNames DEF TableOK, PartialItems, Follows, Brackets
<1>15. TableOK(AuthItems)
  BY BlockNames, GoalNames DEF TableOK, AuthItems, Follows, Brackets
<1>16. TableOK(GithubItems)
  BY BlockNames, GoalNames DEF TableOK, GithubItems, Follows, Brackets
<1>17. TableOK(EmailItems)
  BY BlockNames, GoalNames DEF TableOK, EmailItems, Follows, Brackets
<1>18. TableOK(EmailTemplateItems)
  BY BlockNames, GoalNames DEF TableOK, EmailTemplateItems, Follows, Brackets
<1>19. TableOK(SendgridItems)
  BY BlockNames, GoalNames DEF TableOK, SendgridItems, Follows, Brackets
<1>20. TableOK(StylesItems)
  BY BlockNames, GoalNames DEF TableOK, StylesItems, Follows, Brackets
<1>21. TableOK(StyleProps)
  BY BlockNames, GoalNames DEF TableOK, StyleProps, Follows, Brackets
<1> HIDE DEF TableOK, Blocks
<1> QED
  BY <1>1, <1>2, <1>3, <1>4, <1>5, <1>6, <1>7, <1>8, <1>9, <1>10, <1>11, <1>12, <1>13, <1>14, <1>15, <1>16, <1>17, <1>18, <1>19, <1>20, <1>21, BlockNames DEF Items

-----------------------------------------------------------------------------
(* Helpers *)

LEMMA AdvanceTypes ==
  ASSUME TypeOK, Advance
  PROVE  current' \in Tokens /\ lexer' \in Lexers /\ depth' \in Int
<1>1. \A lx : getNextToken(lx) \subseteq Tokens
  BY DEF getNextToken, WordTokens, Tokens
<1>2. \A t : \A lx \in Lexers : AfterToken(lx, t) \in Lexers
  BY DEF AfterToken, Lexers
<1>3. \A t : Weight(t) \in Int
  BY DEF Weight
<1> QED
  BY <1>1, <1>2, <1>3 DEF Advance, TypeOK

LEMMA DeclareTypes ==
  ASSUME TypeOK, NEW yes \in BOOLEAN, Declare(yes)
  PROVE  count' \in Nat /\ site' \in Seq(Nat) /\ part' \in Seq(Nat)
<1>1. count' \in Nat
  BY DEF Declare, TypeOK
<1>2. \A list \in Seq(Nat) : Put(list) \in Seq(Nat)
  BY <1>1 DEF Put
<1> QED
  BY <1>1, <1>2 DEF Declare, TypeOK

LEMMA MarkShape ==
  ASSUME stack \in Seq(Frames), stack # <<>>, NEW t
  PROVE  /\ Mark(t) \in Seq(Frames)
         /\ Len(Mark(t)) = Len(stack)
         /\ Framed(Mark(t)) = Framed(stack)
<1> DEFINE n == Len(stack)
<1>1. n \in 1..Len(stack) /\ stack[n] \in Frames
  OBVIOUS
<1>2. [stack[n] EXCEPT !.got = @ \cup ({t} \cap Remembered(Block))] \in Frames
  BY <1>1 DEF Frames, Remembered
<1>3. [stack[n] EXCEPT !.got = @ \cup ({t} \cap Remembered(Block))].block
        = stack[n].block
  BY <1>1 DEF Frames
<1>4. Mark(t) = [stack EXCEPT ![n] =
                   [stack[n] EXCEPT !.got = @ \cup ({t} \cap Remembered(Block))]]
  BY DEF Mark
<1> QED
  BY <1>1, <1>2, <1>3, <1>4 DEF Framed

LEMMA AddOne ==
  ASSUME NEW S, IsFiniteSet(S), NEW x, x \notin S
  PROVE  /\ Cardinality(S) \in Nat
         /\ Cardinality(S \cup {x}) = Cardinality(S) + 1
BY FS_CardinalityType, FS_AddElement

LEMMA PushShape ==
  ASSUME NEW s \in Seq(Frames), NEW b \in Blocks
  PROVE  LET t == Append(s, [block |-> b, got |-> {}])
         IN  /\ t \in Seq(Frames) /\ t # <<>>
             /\ Cardinality(Framed(t)) = Cardinality(Framed(s))
                                         + (IF b = "content" THEN 0 ELSE 1)
<1> DEFINE t == Append(s, [block |-> b, got |-> {}])
<1>1. t \in Seq(Frames) /\ t # <<>> /\ Len(t) = Len(s) + 1
  BY DEF Frames
<1>2. IsFiniteSet(Framed(s))
  BY FS_Interval, FS_Subset DEF Framed
<1>3. Framed(t) = IF b = "content" THEN Framed(s) ELSE Framed(s) \cup {Len(s) + 1}
  BY <1>1 DEF Framed
<1>4. Len(s) + 1 \notin Framed(s)
  BY DEF Framed
<1>5. Cardinality(Framed(s)) \in Nat
  BY <1>2, FS_CardinalityType
<1>6. Cardinality(Framed(s) \cup {Len(s) + 1}) = Cardinality(Framed(s)) + 1
  BY <1>2, <1>4, AddOne
<1>7. Cardinality(Framed(t)) = Cardinality(Framed(s))
                              + (IF b = "content" THEN 0 ELSE 1)
  BY <1>3, <1>5, <1>6
<1> QED
  BY <1>1, <1>7

(* What is left of a stack is a stack.                                     *)
LEMMA CutShape ==
  ASSUME NEW s \in Seq(Frames), NEW m \in Nat, m <= Len(s)
  PROVE  /\ SubSeq(s, 1, m) \in Seq(Frames)
         /\ Len(SubSeq(s, 1, m)) = m
         /\ \A i \in 1..m : SubSeq(s, 1, m)[i] = s[i]
<1>1. \A i \in 1..m : s[i] \in Frames
  OBVIOUS
<1> QED
  BY <1>1, SubSeqProperties

LEMMA PopShape ==
  ASSUME stack \in Seq(Frames), stack # <<>>
  PROVE  /\ Below \in Seq(Frames)
         /\ Cardinality(Framed(Below)) = Cardinality(Framed(stack))
                                         - (IF Block = "content" THEN 0 ELSE 1)
<1> DEFINE n == Len(stack)
           m == n - 1
<1>1. n \in Nat /\ n # 0 /\ m \in Nat /\ m <= n
  OBVIOUS
<1>2. /\ Below \in Seq(Frames) /\ Len(Below) = m
      /\ \A i \in 1..m : Below[i] = stack[i]
  BY <1>1, CutShape DEF Below
<1> HIDE DEF m
<1>3. IsFiniteSet(Framed(Below))
  <2>1. Framed(Below) \subseteq 1..m
    BY <1>2 DEF Framed
  <2>2. IsFiniteSet(1..m)
    BY <1>1, FS_Interval
  <2> QED
    BY <2>1, <2>2, FS_Subset
<1>4. Framed(stack) = IF Block = "content" THEN Framed(Below)
                      ELSE Framed(Below) \cup {n}
  BY <1>1, <1>2 DEF Framed, Block, Top, m
<1>5. n \notin Framed(Below)
  BY <1>1, <1>2 DEF Framed, m
<1>6. /\ Cardinality(Framed(Below)) \in Nat
      /\ Cardinality(Framed(Below) \cup {n}) = Cardinality(Framed(Below)) + 1
  BY <1>3, <1>5, AddOne
<1>7. Cardinality(Framed(Below)) = Cardinality(Framed(stack))
                                  - (IF Block = "content" THEN 0 ELSE 1)
  BY <1>4, <1>6
<1> QED
  BY <1>2, <1>7

-----------------------------------------------------------------------------
(* What every step does to the stack, the goal and the braces.             *)
LEMMA TopTypes ==
  ASSUME TypeOK, stack # <<>>
  PROVE  Block \in Blocks
<1>1. Len(stack) \in 1..Len(stack)
  BY DEF TypeOK
<1>2. stack[Len(stack)] \in Frames
  BY <1>1 DEF TypeOK
<1> QED
  BY <1>2 DEF Frames, Block, Top

LEMMA FramedCount ==
  ASSUME NEW s \in Seq(Frames)
  PROVE  Cardinality(Framed(s)) \in Nat
<1>1. Len(s) \in Nat /\ Framed(s) \subseteq 1..Len(s)
  BY DEF Framed
<1>2. IsFiniteSet(1..Len(s))
  BY <1>1, FS_Interval
<1>3. IsFiniteSet(Framed(s))
  BY <1>1, <1>2, FS_Subset
<1> QED
  BY <1>3, FS_CardinalityType

LEMMA ItemStep ==
  ASSUME TypeOK, ParseItem
  PROVE  /\ stack' \in Seq(Frames) /\ stack' # <<>>
         /\ goal' \in Goals \ {"website", "cssOpened"}
         /\ Weight(current) = 0
         /\ Cardinality(Framed(stack')) - (IF goal' = "open" THEN 1 ELSE 0)
              = Cardinality(Framed(stack))
         /\ \E yes \in BOOLEAN : Declare(yes)
<1> DEFINE b == Block
<1>1. b \in Blocks /\ stack # <<>> /\ current \in DOMAIN Items[b]
  BY TopTypes DEF ParseItem, Active, AtItem
<1>2. Items[b][current] \subseteq Follows /\ current \notin Brackets
  BY <1>1, Tables DEF TableOK
<1>3. PICK g \in Items[b][current] :
        /\ IF g \in Blocks
           THEN /\ stack' = Append(Mark(current), [block |-> g, got |-> {}])
                /\ goal' = "open"
           ELSE /\ stack' = Mark(current)
                /\ goal' = g
        /\ Declare(Block = "styles" /\ g = "item" /\ focus = "style")
  BY DEF ParseItem
<1>4. g \in Follows
  BY <1>2, <1>3
<1>5. Weight(current) = 0
  BY <1>2 DEF Weight, Brackets
<1>6. /\ Mark(current) \in Seq(Frames) /\ Mark(current) # <<>>
      /\ Cardinality(Framed(Mark(current))) = Cardinality(Framed(stack))
  <2>1. stack \in Seq(Frames)
    BY DEF TypeOK
  <2>2. /\ Mark(current) \in Seq(Frames) /\ Len(Mark(current)) = Len(stack)
        /\ Framed(Mark(current)) = Framed(stack)
    BY <1>1, <2>1, MarkShape
  <2> QED
    BY <1>1, <2>1, <2>2
<1>7. Cardinality(Framed(stack)) \in Nat
  BY FramedCount DEF TypeOK
<1>declare. \E yes \in BOOLEAN : Declare(yes)
  BY <1>3
<1>8. CASE g \in Blocks
  <2>1. g # "content"
    BY <1>4, <1>8, BlockNames, GoalNames DEF Follows
  <2> DEFINE s == Mark(current)
             t == Append(s, [block |-> g, got |-> {}])
  <2>2. s \in Seq(Frames)
    BY <1>6
  <2>3. /\ t \in Seq(Frames) /\ t # <<>>
        /\ Cardinality(Framed(t)) = Cardinality(Framed(s)) + 1
    BY <1>8, <2>1, <2>2, PushShape
  <2>4. stack' = t /\ goal' = "open"
    BY <1>3, <1>8
  <2>5. Cardinality(Framed(stack')) = Cardinality(Framed(stack)) + 1
    BY <1>6, <2>3, <2>4
  <2> QED
    BY <1>declare, <1>5, <1>7, <2>3, <2>4, <2>5, GoalNames
<1>9. CASE g \notin Blocks
  <2>1. g \in Goals \ {"open", "website", "cssOpened"}
    BY <1>4, <1>9 DEF Follows
  <2>2. stack' = Mark(current) /\ goal' = g
    BY <1>3, <1>9
  <2>3. Cardinality(Framed(stack')) = Cardinality(Framed(stack))
    BY <1>6, <2>2
  <2> QED
    BY <1>declare, <1>5, <1>6, <1>7, <2>1, <2>2, <2>3
<1> QED
  BY <1>8, <1>9

LEMMA OperandStep ==
  ASSUME TypeOK, ParseOperand
  PROVE  /\ stack' \in Seq(Frames) /\ stack' # <<>>
         /\ goal' \in Goals \ {"website", "cssOpened"}
         /\ Weight(current) = 0
         /\ Cardinality(Framed(stack')) - (IF goal' = "open" THEN 1 ELSE 0)
              = Cardinality(Framed(stack)) - (IF goal = "website" THEN 1 ELSE 0)
<1>1. /\ goal \in DOMAIN Accepts /\ goal # "cssOpened"
      /\ current \in Accepts[goal] /\ stack # <<>> /\ stack \in Seq(Frames)
  BY DEF ParseOperand, AtOperand, Active, TypeOK
<1>2. Weight(current) = 0
  BY <1>1 DEF Accepts, Weight
<1>3. Cardinality(Framed(stack)) \in Nat
  BY FramedCount DEF TypeOK
<1>4. CASE goal = "templateName"
  <2> DEFINE t == Append(stack, [block |-> "emailTemplate", got |-> {}])
  <2>1. /\ t \in Seq(Frames) /\ t # <<>>
        /\ Cardinality(Framed(t)) = Cardinality(Framed(stack)) + 1
    BY <1>1, PushShape, BlockNames
  <2>2. stack' = t /\ goal' = "open"
    BY <1>4 DEF ParseOperand
  <2> HIDE DEF t
  <2>3. Cardinality(Framed(stack')) = Cardinality(Framed(stack)) + 1
    BY <2>1, <2>2
  <2>4. stack' \in Seq(Frames) /\ stack' # <<>> /\ goal' \in Goals
    BY <2>1, <2>2 DEF Goals
  <2> QED
    BY <1>2, <1>3, <1>4, <2>2, <2>3, <2>4
<1>5. CASE goal # "templateName"
  <2>1. stack' = stack
        /\ goal' = (IF goal = "website" THEN "open"
                    ELSE IF goal = "path" THEN "processInclude" ELSE "item")
    BY <1>5 DEF ParseOperand
  <2> QED
    BY <1>1, <1>2, <1>3, <2>1 DEF Goals
<1> QED
  BY <1>4, <1>5

-----------------------------------------------------------------------------
(* Types *)

LEMMA InitTypes == Init => TypeOK
<1> SUFFICES ASSUME Init PROVE TypeOK
  OBVIOUS
<1>1. "program" \in Blocks
  BY BlockNames
<1>2. [block |-> "program", got |-> {}] \in Frames
  BY <1>1 DEF Frames
<1>3. stack \in Seq(Frames)
  BY <1>2 DEF Init
<1>4. current \in Tokens
  BY DEF Init, getNextToken, WordTokens, Tokens
<1>5. initLexer \in Lexers /\ lexer \in Lexers
  BY DEF Init, initLexer, AfterToken, Lexers
<1>6. <<>> \in Seq(Nat)
  OBVIOUS
<1>7. goal \in Goals
  BY GoalNames DEF Init
<1>8. outer \in Lexers
  BY <1>5 DEF Init
<1>9. focus \in Followed /\ included \subseteq Paths /\ depth \in Int
  BY DEF Init
<1>10. site \in Seq(Nat) /\ part \in Seq(Nat) /\ count \in Nat
  BY <1>6 DEF Init
<1>11. file \in {Main} \cup Paths /\ hadError \in BOOLEAN /\ reported \in BOOLEAN
       /\ verdict \in {"none", "site", "error"}
  BY DEF Init
<1> QED
  BY <1>3, <1>4, <1>5, <1>7, <1>8, <1>9, <1>10, <1>11 DEF TypeOK

LEMMA ReadTypes == TypeOK /\ Read => TypeOK'
<1> SUFFICES ASSUME TypeOK, Read PROVE TypeOK'
  OBVIOUS
<1>1. /\ Advance \/ UNCHANGED <<current, lexer, depth>>
      /\ UNCHANGED <<file, outer, included, hadError, reported, focus, verdict>>
  BY DEF Read, ParseItem, ParseOperand, Open, Close, ReadCss, OpenCss,
         CloseCss, reader, files
<1>2. current' \in Tokens /\ lexer' \in Lexers /\ depth' \in Int
  BY <1>1, AdvanceTypes DEF TypeOK
<1>3. /\ file' \in {Main} \cup Paths /\ outer' \in Lexers
      /\ included' \subseteq Paths /\ hadError' \in BOOLEAN
      /\ reported' \in BOOLEAN /\ focus' \in Followed
      /\ verdict' \in {"none", "site", "error"}
  BY <1>1 DEF TypeOK
<1>4. stack' \in Seq(Frames) /\ goal' \in Goals
  <2>1. CASE ParseItem
    BY <2>1, ItemStep
  <2>2. CASE ParseOperand
    BY <2>2, OperandStep
  <2>3. CASE Open
    BY <2>3, GoalNames DEF Open, TypeOK
  <2>4. CASE Close
    <3>1. stack' = Below /\ stack # <<>>
      BY <2>4 DEF Close, Active
    <3>2. Below \in Seq(Frames)
      BY <3>1, PopShape DEF TypeOK
    <3> QED
      BY <2>4, <3>1, <3>2, GoalNames DEF Close
  <2>5. CASE ReadCss \/ OpenCss \/ CloseCss
    BY <2>5, GoalNames DEF ReadCss, OpenCss, CloseCss, TypeOK
  <2> QED
    BY <2>1, <2>2, <2>3, <2>4, <2>5 DEF Read
<1>5. count' \in Nat /\ site' \in Seq(Nat) /\ part' \in Seq(Nat)
  <2>1. CASE ParseItem
    BY <2>1, ItemStep, DeclareTypes
  <2>2. CASE Close
    <3>1. (Kind(Block) = focus) \in BOOLEAN /\ Declare(Kind(Block) = focus)
      BY <2>2 DEF Close
    <3> QED
      BY <3>1, DeclareTypes
  <2>3. CASE ParseOperand \/ Open \/ ReadCss \/ OpenCss \/ CloseCss
    BY <2>3 DEF ParseOperand, Open, ReadCss, OpenCss, CloseCss, lists, TypeOK
  <2> QED
    BY <2>1, <2>2, <2>3 DEF Read
<1> QED
  BY <1>2, <1>3, <1>4, <1>5 DEF TypeOK

LEMMA TurnTypes == TypeOK /\ Turn => TypeOK'
<1> SUFFICES ASSUME TypeOK, Turn PROVE TypeOK'
  OBVIOUS
<1>1. CASE Fail
  BY <1>1 DEF Fail, TypeOK, files, lists, Tokens
<1>2. CASE EnterContent
  <2>1. stack' \in Seq(Frames)
    BY <1>2, PushShape, BlockNames DEF EnterContent, TypeOK
  <2> QED
    BY <1>2, <2>1 DEF EnterContent, TypeOK, reader, files, lists
<1>3. CASE LeaveContent
  <2>1. stack' \in Seq(Frames)
    BY <1>3, PopShape DEF LeaveContent, Active, TypeOK
  <2> QED
    BY <1>3, <2>1 DEF LeaveContent, TypeOK, reader, files, lists
<1>4. CASE \E p \in Paths : BeginInclude(p)
  <2> PICK p \in Paths : BeginInclude(p)
    BY <1>4
  <2>1. stack' \in Seq(Frames)
    BY PushShape, BlockNames DEF BeginInclude, TypeOK
  <2>2. /\ \A lx : getNextToken(lx) \subseteq Tokens
        /\ \A t : \A lx \in Lexers : AfterToken(lx, t) \in Lexers
        /\ initLexer \in Lexers
    BY DEF getNextToken, WordTokens, Tokens, AfterToken, Lexers, initLexer
  <2>3. current' \in Tokens /\ lexer' \in Lexers
    BY <2>2 DEF BeginInclude
  <2> QED
    BY <2>1, <2>3, GoalNames DEF BeginInclude, TypeOK, lists
<1>5. CASE FinishInclude
  <2>1. stack' \in Seq(Frames)
    <3>1. <<>> \in Seq(Frames)
      OBVIOUS
    <3>2. CASE stack # <<>>
      BY <1>5, <3>1, <3>2, PopShape DEF FinishInclude, TypeOK
    <3>3. CASE stack = <<>>
      <4>1. Below = <<>>
        BY <3>3, SubSeqEmpty DEF Below
      <4> QED
        BY <1>5, <3>1, <4>1 DEF FinishInclude
    <3> QED
      BY <3>2, <3>3
  <2>2. /\ \A lx : getNextToken(lx) \subseteq Tokens
        /\ \A t : \A lx \in Lexers : AfterToken(lx, t) \in Lexers
        /\ "EOF" \in Tokens
    BY DEF getNextToken, WordTokens, Tokens, AfterToken, Lexers
  <2>3. current' \in Tokens /\ lexer' \in Lexers
    BY <1>5, <2>2 DEF FinishInclude, TypeOK
  <2>4. site' \in Seq(Nat) /\ part' \in Seq(Nat)
    <3>1. site \o part \in Seq(Nat) /\ <<>> \in Seq(Nat)
      BY DEF TypeOK
    <3> QED
      BY <1>5, <3>1 DEF FinishInclude, Merged, TypeOK
  <2> QED
    BY <1>5, <2>1, <2>3, <2>4, GoalNames
    DEF FinishInclude, FailedInclude, TypeOK
<1>6. CASE Judge
  BY <1>6 DEF Judge, TypeOK, reader, files, lists
<1> QED
  BY <1>1, <1>2, <1>3, <1>4, <1>5, <1>6 DEF Turn, Reject, RefuseInclude

(* Type correctness: whatever the text and the files it includes, the      *)
(* parser's state stays of its type.                                       *)
THEOREM TypeCorrect == Spec => []TypeOK
<1>1. TypeOK /\ UNCHANGED vars => TypeOK'
  BY DEF TypeOK, vars
<1>2. TypeOK /\ [Next]_vars => TypeOK'
  BY <1>1, ReadTypes, TurnTypes DEF Next, Finished
<1> QED
  BY <1>2, InitTypes, PTL DEF Spec

-----------------------------------------------------------------------------
(* Braces *)

(* BracesMatch is not inductive: that no frame is left has to mean that    *)
(* nothing is owed.                                                        *)
BraceInv ==
  /\ stack = <<>> => goal = "item"
  /\ ~hadError => depth = Owed
  /\ verdict = "site" => ~hadError /\ stack = <<>>

LEMMA InitBraces == Init => BraceInv
<1> SUFFICES ASSUME Init PROVE BraceInv
  OBVIOUS
<1>1. Framed(<<[block |-> "program", got |-> {}]>>) = {1}
  BY DEF Framed
<1>2. Cardinality({1}) = 1
  BY FS_Singleton
<1>3. /\ stack = <<[block |-> "program", got |-> {}]>> /\ goal = "website"
      /\ depth = 0 /\ verdict = "none"
  BY DEF Init
<1>4. stack # <<>>
  BY <1>3
<1>5. Cardinality(Framed(stack)) = 1
  BY <1>1, <1>2, <1>3
<1>6. Owed = 0
  BY <1>3, <1>5 DEF Owed
<1> QED
  BY <1>3, <1>4, <1>6 DEF BraceInv

LEMMA AdvanceDepth ==
  ASSUME Advance PROVE depth' = depth + Weight(current)
BY DEF Advance

LEMMA ReadBraces == TypeOK /\ BraceInv /\ Read => BraceInv'
<1> SUFFICES ASSUME TypeOK, BraceInv, Read PROVE BraceInv'
  OBVIOUS
<1>1. /\ ~hadError /\ ~hadError' /\ stack # <<>> /\ verdict' # "site"
      /\ depth = Owed /\ depth \in Int
  BY DEF Read, ParseItem, ParseOperand, Open, Close, ReadCss, OpenCss,
         CloseCss, Active, Done, BraceInv, TypeOK
<1>2. Cardinality(Framed(stack)) \in Nat
  BY FramedCount DEF TypeOK
<1>3. CASE ParseItem
  <2>1. goal \in {"item", "styleStart"} /\ depth' = depth + Weight(current)
    BY <1>3, AdvanceDepth DEF ParseItem, AtItem
  <2>2. depth' = depth /\ stack' # <<>>
    BY <1>1, <1>3, <2>1, ItemStep
  <2>3. goal' # "cssOpened" /\ goal' # "website"
    BY <1>3, ItemStep
  <2>4. Cardinality(Framed(stack')) - (IF goal' = "open" THEN 1 ELSE 0)
          = Cardinality(Framed(stack))
    BY <1>3, ItemStep
  <2>5. Cardinality(Framed(stack')) \in Nat
    BY <1>3, ItemStep, FramedCount
  <2> QED
    BY <1>1, <1>2, <2>1, <2>2, <2>3, <2>4, <2>5 DEF BraceInv, Owed
<1>4. CASE ParseOperand
  <2>1. /\ goal # "cssOpened" /\ goal # "open"
        /\ depth' = depth \/ depth' = depth + Weight(current)
    BY <1>4, AdvanceDepth DEF ParseOperand, AtOperand, Accepts
  <2>2. depth' = depth /\ stack' # <<>>
    BY <1>1, <1>4, <2>1, OperandStep
  <2>3. goal' # "cssOpened" /\ goal' # "website"
    BY <1>4, OperandStep
  <2>4. Cardinality(Framed(stack')) - (IF goal' = "open" THEN 1 ELSE 0)
          = Cardinality(Framed(stack)) - (IF goal = "website" THEN 1 ELSE 0)
    BY <1>4, OperandStep
  <2>5. Cardinality(Framed(stack')) \in Nat
    BY <1>4, OperandStep, FramedCount
  <2> QED
    BY <1>1, <1>2, <2>1, <2>2, <2>3, <2>4, <2>5 DEF BraceInv, Owed
<1>5. CASE Open
  <2>1. /\ goal = "open" /\ goal' \in {"styleStart", "item"} /\ stack' = stack
        /\ depth' = depth + 1
    BY <1>5, AdvanceDepth DEF Open, AtOpening, Opener, Weight
  <2> QED
    BY <1>1, <1>2, <2>1 DEF BraceInv, Owed
<1>6. CASE Close
  <2>1. /\ goal \in {"item", "styleStart", "cssRead", "end", "comma"}
        /\ goal' = "item" /\ stack' = Below /\ Block # "content"
        /\ depth' = depth - 1
    BY <1>1, <1>6, AdvanceDepth DEF Close, AtClosing, Closer, Weight
  <2>2. Cardinality(Framed(Below)) = Cardinality(Framed(stack)) - 1
    BY <1>1, <2>1, PopShape DEF TypeOK
  <2> QED
    BY <1>1, <1>2, <2>1, <2>2 DEF BraceInv, Owed
<1>7. CASE ReadCss
  <2>1. /\ goal = "styleStart" /\ goal' = "cssRead" /\ stack' = stack
        /\ depth' = depth
    BY <1>1, <1>7, AdvanceDepth DEF ReadCss, AtCss, Weight
  <2> QED
    BY <1>1, <2>1 DEF BraceInv, Owed
<1>8. CASE OpenCss
  <2>1. /\ goal = "cssRead" /\ goal' = "cssOpened" /\ stack' = stack
        /\ depth' = depth + 1
    BY <1>1, <1>8, AdvanceDepth DEF OpenCss, AtCssBraces, Weight
  <2> QED
    BY <1>1, <1>2, <2>1 DEF BraceInv, Owed
<1>9. CASE CloseCss
  <2>1. /\ goal = "cssOpened" /\ goal' = "end" /\ stack' = stack
        /\ depth' = depth - 1
    BY <1>1, <1>9, AdvanceDepth DEF CloseCss, AtOperand, Accepts, Weight
  <2> QED
    BY <1>1, <1>2, <2>1 DEF BraceInv, Owed
<1> QED
  BY <1>3, <1>4, <1>5, <1>6, <1>7, <1>8, <1>9 DEF Read

LEMMA TurnBraces == TypeOK /\ BraceInv /\ Turn => BraceInv'
<1> SUFFICES ASSUME TypeOK, BraceInv, Turn PROVE BraceInv'
  OBVIOUS
<1>1. CASE Active /\ Fail
  BY <1>1 DEF Fail, BraceInv, Active, Done, files, lists
<1>2. CASE EnterContent
  <2> DEFINE inner == [block |-> "content", got |-> {}]
  <2>1. stack \in Seq(Frames) /\ stack' = Append(stack, inner)
    BY <1>2 DEF EnterContent, TypeOK
  <2>2. "content" \in Blocks
    BY BlockNames
  <2>3. /\ stack' # <<>>
        /\ Cardinality(Framed(stack')) = Cardinality(Framed(stack))
    BY <2>1, <2>2, PushShape, FramedCount
  <2>4. /\ goal' = goal /\ depth' = depth
        /\ hadError' = hadError /\ verdict' = verdict /\ ~Done
    BY <1>2 DEF EnterContent, Active
  <2>5. Owed' = Owed
    BY <2>3, <2>4 DEF Owed
  <2> QED
    BY <2>3, <2>4, <2>5 DEF Done, BraceInv
<1>3. CASE LeaveContent
  <2>1. Block = "content" /\ goal = "item" /\ stack' = Below
    BY <1>3 DEF LeaveContent, ContentOver
  <2>2. Cardinality(Framed(stack')) = Cardinality(Framed(stack))
    BY <1>3, <2>1, PopShape, FramedCount DEF LeaveContent, Active, TypeOK
  <2> QED
    BY <1>3, <2>1, <2>2 DEF LeaveContent, Active, Done, BraceInv, Owed
<1>4. CASE \E p \in Paths : BeginInclude(p)
  <2> PICK p \in Paths : BeginInclude(p)
    BY <1>4
  <2> DEFINE inner == [block |-> "content", got |-> {}]
  <2>1. stack \in Seq(Frames) /\ stack' = Append(stack, inner)
    BY DEF BeginInclude, TypeOK
  <2>2. "content" \in Blocks
    BY BlockNames
  <2>3. /\ stack' # <<>>
        /\ Cardinality(Framed(stack')) = Cardinality(Framed(stack))
    BY <2>1, <2>2, PushShape, FramedCount
  <2>4. /\ goal = "processInclude" /\ goal' = "item" /\ depth' = depth
        /\ hadError' = hadError /\ verdict' = verdict /\ ~Done
    BY DEF BeginInclude, Active, lists
  <2>5. Owed' = Owed
    BY <2>3, <2>4 DEF Owed
  <2> QED
    BY <2>3, <2>4, <2>5 DEF Done, BraceInv
<1>5. CASE FinishInclude
  <2>1. /\ goal' = "item" /\ depth' = depth /\ verdict' = verdict
        /\ hadError' = hadError /\ verdict # "site"
    BY <1>5 DEF FinishInclude, FailedInclude, Done
  <2>2. CASE hadError
    BY <2>1, <2>2 DEF BraceInv
  <2>3. CASE ~hadError
    <3>1. Block = "content" /\ goal = "item" /\ stack' = Below
      BY <1>5, <2>1, <2>3 DEF FinishInclude, ContentOver
    <3>2. CASE stack # <<>>
      <4>1. Cardinality(Framed(stack')) = Cardinality(Framed(stack))
        BY <3>1, <3>2, PopShape, FramedCount DEF TypeOK
      <4> QED
        BY <2>1, <2>3, <3>1, <4>1 DEF BraceInv, Owed
    <3>3. CASE stack = <<>>
      <4>1. Below = <<>>
        BY <3>3, SubSeqEmpty DEF Below
      <4> QED
        BY <2>1, <2>3, <3>1, <3>3, <4>1 DEF BraceInv, Owed
    <3> QED
      BY <3>2, <3>3
  <2> QED
    BY <2>2, <2>3
<1>6. CASE Judge
  BY <1>6 DEF Judge, BraceInv, Owed, reader, files, lists
<1> QED
  BY <1>1, <1>2, <1>3, <1>4, <1>5, <1>6 DEF Turn, Reject, RefuseInclude

(* However deep blocks nest, in however many files, of the tokens it reads *)
(* the parser closes exactly what it opened, and it accepts a site at the  *)
(* brace that closes it.  Tokens after that brace, or after a stray one in *)
(* an included file, are not read and may be anything.                     *)
THEOREM BracesAreMatched == Spec => []BracesMatch
<1>1. BraceInv /\ UNCHANGED vars => BraceInv'
  BY DEF BraceInv, Owed, vars
<1>2. TypeOK /\ BraceInv /\ [Next]_vars => BraceInv'
  BY <1>1, ReadBraces, TurnBraces DEF Next, Finished
<1>3. BraceInv => BracesMatch
  <2> SUFFICES ASSUME BraceInv PROVE BracesMatch
    OBVIOUS
  <2>1. Framed(<<>>) = {}
    BY DEF Framed
  <2>2. Cardinality({}) = 0
    BY FS_EmptySet
  <2>3. ASSUME verdict = "site" PROVE depth = 0
    <3>1. ~hadError /\ stack = <<>> /\ goal = "item" /\ depth = Owed
      BY <2>3 DEF BraceInv
    <3>2. Cardinality(Framed(stack)) = 0
      BY <2>1, <2>2, <3>1
    <3> QED
      BY <3>1, <3>2 DEF Owed
  <2> QED
    BY <2>3 DEF BraceInv, BracesMatch
<1> QED
  BY <1>2, <1>3, InitBraces, TypeCorrect, PTL DEF Spec

(* So the stack of parse functions is right for any text.                  *)
THEOREM StackIsSound == Spec => []StackSound
  BY TypeCorrect, BracesAreMatched, PTL DEF StackSound

-----------------------------------------------------------------------------
(* Errors and lists *)

(* An error that has been reported stays an error of the parser that runs: *)
(* processInclude hands it on.                                             *)
ErrorInv ==
  /\ reported => hadError
  /\ verdict = "site" => ~hadError

(* No error is forgotten, whatever file it is in.                          *)
THEOREM ErrorsReject == Spec => []NoSiteAfterError
<1>1. Init => ErrorInv
  BY DEF Init, ErrorInv
<1>2. ErrorInv /\ [Next]_vars => ErrorInv'
  <2> SUFFICES ASSUME ErrorInv, [Next]_vars PROVE ErrorInv'
    OBVIOUS
  <2>1. CASE Read
    BY <2>1 DEF Read, ParseItem, ParseOperand, Open, Close, ReadCss, OpenCss,
                CloseCss, ErrorInv
  <2>2. CASE Turn
    BY <2>2 DEF Turn, EnterContent, LeaveContent, Reject, Judge, BeginInclude,
                RefuseInclude, FinishInclude, FailedInclude, Fail, Active,
                Done, ErrorInv
  <2>3. CASE UNCHANGED vars
    BY <2>3 DEF vars, ErrorInv
  <2> QED
    BY <2>1, <2>2, <2>3 DEF Next, Finished
<1>3. ErrorInv => NoSiteAfterError
  BY DEF ErrorInv, NoSiteAfterError
<1> QED
  BY <1>1, <1>2, <1>3, PTL DEF Spec

(* The declarations in the order of the text.                              *)
CountUp(n) == [i \in 1..n |-> i]

LEMMA OneMore ==
  ASSUME NEW n \in Nat
  PROVE  Append(CountUp(n), n + 1) = CountUp(n + 1)
<1>1. CountUp(n) \in Seq(Nat) /\ Len(CountUp(n)) = n
  BY DEF CountUp
<1>2. CountUp(n + 1) \in Seq(Nat) /\ Len(CountUp(n + 1)) = n + 1
  BY DEF CountUp
<1>3. /\ Append(CountUp(n), n + 1) \in Seq(Nat)
      /\ Len(Append(CountUp(n), n + 1)) = n + 1
  BY <1>1
<1>4. \A i \in 1..(n + 1) : Append(CountUp(n), n + 1)[i] = CountUp(n + 1)[i]
  BY <1>1 DEF CountUp
<1> QED
  BY <1>2, <1>3, <1>4, SeqEqual

(* What an included file has declared follows what Main has.               *)
LEMMA Lengthen ==
  ASSUME NEW s \in Seq(Nat), NEW t \in Seq(Nat), NEW x \in Nat
  PROVE  s \o Append(t, x) = Append(s \o t, x)
<1>1. /\ s \o Append(t, x) \in Seq(Nat)
      /\ Append(s \o t, x) \in Seq(Nat)
      /\ Len(s \o Append(t, x)) = Len(s) + Len(t) + 1
      /\ Len(Append(s \o t, x)) = Len(s) + Len(t) + 1
  OBVIOUS
<1>2. \A i \in 1..(Len(s) + Len(t) + 1) :
        (s \o Append(t, x))[i] = Append(s \o t, x)[i]
  OBVIOUS
<1> QED
  BY <1>1, <1>2, SeqEqual

(* NothingLost is not inductive: while an included file is read the lists  *)
(* of both parsers together have what was read.                            *)
ListInv ==
  /\ file = Main => part = <<>>
  /\ ~hadError /\ focus \in Lists => site \o part = CountUp(count)
  /\ verdict = "site" => ~hadError /\ file = Main

LEMMA NoRest == \A s \in Seq(Nat) : s \o <<>> = s
BY ConcatEmptySeq

(* A declaration that is complete lengthens one of the two lists.          *)
LEMMA DeclareLists ==
  ASSUME TypeOK, ListInv, NEW yes, Declare(yes), ~hadError, focus \in Lists
  PROVE  /\ site' \o part' = CountUp(count')
         /\ file = Main => part' = <<>>
<1>1. /\ site \in Seq(Nat) /\ part \in Seq(Nat) /\ count \in Nat
      /\ site \o part = CountUp(count)
  BY DEF TypeOK, ListInv
<1>2. CASE yes
  <2>1. count' = count + 1 /\ count' \in Nat
    BY <1>1, <1>2 DEF Declare
  <2>2. Append(site \o part, count') = CountUp(count')
    BY <1>1, <2>1, OneMore
  <2>3. CASE file = Main
    <3>1. site' = Append(site, count') /\ part' = <<>> /\ part = <<>>
      BY <1>2, <2>3 DEF Declare, Put, ListInv
    <3>2. site' \o part' = site' /\ site \o part = site
      BY <1>1, <2>1, <3>1, NoRest
    <3> QED
      BY <2>2, <3>1, <3>2
  <2>4. CASE file # Main
    <3>1. site' = site /\ part' = Append(part, count')
      BY <1>2, <2>4 DEF Declare, Put
    <3>2. site' \o part' = Append(site \o part, count')
      BY <1>1, <2>1, <3>1, Lengthen
    <3> QED
      BY <2>2, <2>4, <3>2
  <2> QED
    BY <2>3, <2>4
<1>3. CASE ~yes
  BY <1>1, <1>3 DEF Declare, ListInv
<1> QED
  BY <1>2, <1>3

LEMMA ReadLists == TypeOK /\ ListInv /\ Read => ListInv'
<1> SUFFICES ASSUME TypeOK, ListInv, Read PROVE ListInv'
  OBVIOUS
<1>1. /\ ~hadError /\ ~hadError' /\ file' = file /\ focus' = focus
      /\ verdict' = verdict /\ verdict # "site"
  BY DEF Read, ParseItem, ParseOperand, Open, Close, ReadCss, OpenCss,
         CloseCss, files, Active, Done
<1>2. \/ UNCHANGED lists
      \/ \E yes \in BOOLEAN : Declare(yes)
  BY DEF Read, ParseItem, ParseOperand, Open, Close, ReadCss, OpenCss, CloseCss
<1>3. CASE UNCHANGED lists
  BY <1>1, <1>3 DEF ListInv, lists
<1>4. ASSUME NEW yes \in BOOLEAN, Declare(yes) PROVE ListInv'
  <2>1. focus \in Lists => /\ site' \o part' = CountUp(count')
                           /\ file = Main => part' = <<>>
    BY <1>1, <1>4, DeclareLists
  <2>2. file = Main => part' = <<>>
    BY <1>4 DEF Declare, ListInv
  <2> QED
    BY <1>1, <2>1, <2>2 DEF ListInv
<1> QED
  BY <1>2, <1>3, <1>4

LEMMA TurnLists == TypeOK /\ ListInv /\ Turn => ListInv'
<1> SUFFICES ASSUME TypeOK, ListInv, Turn PROVE ListInv'
  OBVIOUS
<1>1. CASE Active /\ Fail
  BY <1>1 DEF Fail, ListInv, CountUp, Active, files, lists, Done
<1>2. CASE EnterContent \/ LeaveContent \/ Judge
  BY <1>2 DEF EnterContent, LeaveContent, Judge, ListInv, CountUp, files,
              lists, Done
<1>3. CASE \E p \in Paths : BeginInclude(p)
  <2>1. PICK p \in Paths : BeginInclude(p)
    BY <1>3
  <2>2. /\ UNCHANGED lists /\ focus' = focus /\ hadError' = hadError
        /\ verdict' = verdict /\ verdict = "none" /\ ~hadError
        /\ file' = p
    BY <2>1 DEF BeginInclude, Active, Done
  <2>3. Main # p
    BY ParserAssumption
  <2> QED
    BY <2>2, <2>3 DEF ListInv, CountUp, lists
<1>4. CASE FinishInclude
  <2>1. /\ hadError' = hadError /\ part' = <<>> /\ count' = count
        /\ focus' = focus /\ verdict' = verdict /\ file' = Main
        /\ verdict # "site"
    BY <1>4 DEF FinishInclude, FailedInclude, Done
  <2>2. ASSUME ~hadError, focus \in Lists PROVE site' \o part' = CountUp(count')
    <3>1. site' = site \o part /\ site \o part \in Seq(Nat)
      BY <1>4, <2>2 DEF FinishInclude, Merged, TypeOK
    <3>2. site' \o <<>> = site'
      BY <3>1, NoRest
    <3> QED
      BY <2>1, <2>2, <3>1, <3>2 DEF ListInv
  <2> QED
    BY <2>1, <2>2 DEF ListInv
<1> QED
  BY <1>1, <1>2, <1>3, <1>4 DEF Turn, Reject, RefuseInclude

(* Every declaration that was read is in the site that is accepted, once   *)
(* and in its place, however many files it was read from.                  *)
THEOREM DeclarationsKept == Spec => []NothingLost
<1>1. Init => ListInv
  <2> SUFFICES ASSUME Init PROVE ListInv
    OBVIOUS
  <2>1. site \o part = <<>> /\ CountUp(count) = <<>>
    BY NoRest DEF Init, CountUp
  <2> QED
    BY <2>1 DEF Init, ListInv
<1>2. ListInv /\ UNCHANGED vars => ListInv'
  BY DEF ListInv, CountUp, vars
<1>3. TypeOK /\ ListInv /\ [Next]_vars => ListInv'
  BY <1>2, ReadLists, TurnLists DEF Next, Finished
<1>4. TypeOK /\ ListInv => NothingLost
  <2> SUFFICES ASSUME TypeOK, ListInv, verdict = "site", focus \in Lists
               PROVE  site = CountUp(count)
    BY DEF NothingLost, CountUp
  <2>1. part = <<>> /\ site \o part = CountUp(count)
    BY DEF ListInv
  <2> QED
    BY <2>1, NoRest DEF TypeOK
<1> QED
  BY <1>1, <1>3, <1>4, TypeCorrect, PTL DEF Spec

=============================================================================
