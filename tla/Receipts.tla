------------------------------ MODULE Receipts ------------------------------
(***************************************************************************)
(* Receipt templates (src/shared/platform/receipt), which the Edge prints  *)
(* and the Cloud previews: the parser reads a template line by line into   *)
(* blocks, with a stack of the wrappers that are open; the engine renders  *)
(* the blocks against what is printed; a renderer lays a line out in the   *)
(* columns of its paper.                                                   *)
(*                                                                         *)
(* A line is a sequence of pieces: a wrapper that is opened or closed, or  *)
(* a text, of which only the field it shows matters.                       *)
(***************************************************************************)
EXTENDS Integers, Sequences, SequencesExt, FiniteSetsExt

CONSTANTS
    Line,           \* the lines a template may have
    MaxLines,       \* bound: lines of a template
    Prints,         \* what may be printed: functions from fields to values
    Columns,        \* the columns a line may have: their widths, 0 for auto
    Papers          \* characters per line of the printers, 0 for unknown

Piece == [is : {"open", "close", "text"}, kind : {"if", "each", "none"}, field : STRING]

ASSUME ReceiptsAssumption ==
    /\ \A line \in Line : line \in Seq(Piece)
    /\ MaxLines \in Nat /\ Papers \subseteq Nat
    /\ \A columns \in Columns : columns \in Seq(Nat)

VARIABLES
    lines,          \* what the parser has read
    frames,         \* documentParser: the root and what is open in it, or Refused
    receipt,        \* what came out of Render
    layout          \* what a renderer made of a line

receiptVars == <<lines, frames, receipt, layout>>

Refused == <<>>
Unrendered == [ok |-> FALSE, printed |-> <<>>]
NoLayout == [columns |-> <<>>]
Frame(kind, field) == [kind |-> kind, field |-> field, blocks |-> <<>>]

ReceiptsInit ==
    /\ lines = <<>> /\ frames = <<Frame("root", "none")>>
    /\ receipt = Unrendered /\ layout = NoLayout

-----------------------------------------------------------------------------
(* The parser.                                                             *)

\* splitControlWrappers: what a line opens at its start and closes at its end.
Opens(line) == Max({n \in 0..Len(line) : \A i \in 1..n : line[i].is = "open"})
Closes(line) ==
    Max({n \in 0..Len(line) - Opens(line) :
            \A i \in Len(line) - n + 1..Len(line) : line[i].is = "close"})

\* append
AppendBlock(stack, block) == [stack EXCEPT ![Len(stack)].blocks = Append(@, block)]

\* Mutant: a closing directive closes whatever is open.
CloseAny(stack, kind) ==
    IF stack = Refused \/ Len(stack) = 1 THEN Refused
    ELSE LET top == Last(stack)
         IN  AppendBlock(Front(stack),
                 [is |-> top.kind, field |-> top.field, blocks |-> top.blocks])
\* close
Close(stack, kind) ==
    IF stack = Refused \/ Last(stack).kind # kind THEN Refused
    ELSE LET top == Last(stack)
         IN  AppendBlock(Front(stack),
                 [is |-> kind, field |-> top.field, blocks |-> top.blocks])

\* parseBlock: a line of its own without anything in it is a space; what begins with a
\* directive that has no place there is refused, but after a text it is text.
Text(stack, line) ==
    LET middle == SubSeq(line, Opens(line) + 1, Len(line) - Closes(line))
    IN  IF middle = <<>> /\ line # <<>> THEN stack
        ELSE IF middle # <<>> /\ middle[1].is # "text" THEN Refused
        ELSE AppendBlock(stack, [is |-> "text", line |-> Len(lines) + 1, pieces |-> middle])

\* parseLine
ParseLine(line) ==
    LET opened == [i \in 1..Opens(line) |-> Frame(line[i].kind, line[i].field)]
        closed == SubSeq(line, Len(line) - Closes(line) + 1, Len(line))
    IN  FoldLeft(LAMBDA stack, piece : Close(stack, piece.kind),
                 Text(frames \o opened, line), closed)

ReadLine(line) ==
    /\ receipt = Unrendered /\ layout = NoLayout
    /\ frames # Refused /\ Len(lines) < MaxLines
    /\ frames' = ParseLine(line)
    /\ lines' = Append(lines, line)
    /\ UNCHANGED <<receipt, layout>>

-----------------------------------------------------------------------------
(* The engine.                                                             *)

Nil == [is |-> "nil"]

\* lookup: the innermost scope that has the field, with whatever it has.
Lookup(scopes, field) ==
    LET having == {i \in DOMAIN scopes : field \in DOMAIN scopes[i]}
    IN  IF having = {} THEN Nil ELSE scopes[Max(having)][field]

\* truthy
Truthy(value) ==
    \/ value.is = "text" /\ value.text # ""
    \/ value.is = "list" /\ value.items # <<>>

\* iterable
Iterable(value) == IF value.is = "list" THEN value.items ELSE <<>>

\* renderString: of nothing it makes nothing, and a directive it leaves as it is.
Shown(piece, scopes) ==
    IF piece.is # "text" THEN piece.is
    ELSE LET value == Lookup(scopes, piece.field)
         IN  IF value.is = "text" THEN value.text ELSE ""

Printed(line, pieces, scopes) ==
    [line |-> line, shows |-> [i \in DOMAIN pieces |-> Shown(pieces[i], scopes)]]

\* renderBlocks and renderBlock
RECURSIVE RenderBlocks(_, _)
RenderBlock(block, scopes) ==
    CASE block.is = "text" -> <<Printed(block.line, block.pieces, scopes)>>
      [] block.is = "if" ->
            IF Truthy(Lookup(scopes, block.field)) THEN RenderBlocks(block.blocks, scopes)
            ELSE <<>>
      [] block.is = "each" ->
            LET items == Iterable(Lookup(scopes, block.field))
            IN  FlattenSeq([i \in DOMAIN items |->
                    RenderBlocks(block.blocks, Append(scopes, items[i]))])
RenderBlocks(blocks, scopes) ==
    FlattenSeq([i \in DOMAIN blocks |-> RenderBlock(blocks[i], scopes)])

\* Render: nothing comes of a template that Parse refuses, one left open among them.
Render(print) ==
    /\ receipt = Unrendered /\ Len(frames) = 1
    /\ receipt' = [ok |-> TRUE, printed |-> RenderBlocks(frames[1].blocks, <<print>>)]
    /\ UNCHANGED <<lines, frames, layout>>

-----------------------------------------------------------------------------
(* The layout.                                                             *)

NormalizeCPL(paper) == IF paper = 0 THEN 48 ELSE paper
\* TextCPL
TextCPL(paper, font) ==
    IF font = "double" THEN Max({1, NormalizeCPL(paper) \div 2}) ELSE NormalizeCPL(paper)

\* ColumnWidths: what the fixed columns leave is shared, the first get what is over.
ColumnWidths(columns, width) ==
    LET auto == {i \in DOMAIN columns : columns[i] = 0}
        fixed == MapThenSumSet(LAMBDA i : columns[i], DOMAIN columns)
        remaining == Max({width - fixed, Cardinality(auto)})
        Over(i) == IF Cardinality({j \in auto : j < i}) < remaining % Cardinality(auto)
                   THEN 1 ELSE 0
    IN  [i \in DOMAIN columns |->
            IF i \in auto THEN remaining \div Cardinality(auto) + Over(i) ELSE columns[i]]

RenderColumns(columns, paper, font) ==
    /\ lines = <<>> /\ receipt = Unrendered /\ layout = NoLayout
    /\ layout' = [columns |-> columns, width |-> TextCPL(paper, font),
                  widths |-> ColumnWidths(columns, TextCPL(paper, font))]
    /\ UNCHANGED <<lines, frames, receipt>>

ReceiptsNext ==
    \/ \E line \in Line : ReadLine(line)
    \/ \E print \in Prints : Render(print)
    \/ \E columns \in Columns, paper \in Papers, font \in {"normal", "double"} :
          RenderColumns(columns, paper, font)

-----------------------------------------------------------------------------
(* Properties.                                                             *)

\* What is left of the directives of some lines when what is opened and closed right after
\* is crossed out again and again.
RECURSIVE Reduced(_)
Reduced(pieces) ==
    LET pairs == {i \in 1..Len(pieces) - 1 :
                    /\ pieces[i].is = "open" /\ pieces[i + 1].is = "close"
                    /\ pieces[i].kind = pieces[i + 1].kind}
        first == Min(pairs)
    IN  IF pairs = {} THEN pieces
        ELSE Reduced(SubSeq(pieces, 1, first - 1) \o SubSeq(pieces, first + 2, Len(pieces)))
Directives(some) ==
    Reduced(SelectSeq(FlattenSeq(some), LAMBDA piece : piece.is # "text"))

\* Wrappers are opened at the start of a line and closed at its end.
InPlace(line) ==
    \A i, j \in DOMAIN line : i < j =>
        /\ line[j].is = "open" => line[i].is = "open"
        /\ line[i].is = "close" => line[j].is = "close"

\* What a line prints, and in what it is wrapped.
Pieces(n) == SelectSeq(lines[n], LAMBDA piece : piece.is = "text")
HasText(n) == lines[n] = <<>> \/ Pieces(n) # <<>>
Wrapping(n) ==
    Directives(Append(SubSeq(lines, 1, n - 1),
                      SelectSeq(lines[n], LAMBDA piece : piece.is = "open")))

\* The scopes a line is printed in, one by one.
RECURSIVE Copies(_, _)
Copies(wrapping, scopes) ==
    IF wrapping = <<>> THEN <<scopes>>
    ELSE LET value == Lookup(scopes, wrapping[1].field)
         IN  IF wrapping[1].kind = "if"
             THEN IF Truthy(value) THEN Copies(Tail(wrapping), scopes) ELSE <<>>
             ELSE FlattenSeq([i \in DOMAIN Iterable(value) |->
                    Copies(Tail(wrapping), Append(scopes, Iterable(value)[i]))])
Expected(n, print) ==
    LET copies == Copies(Wrapping(n), <<print>>)
    IN  [i \in DOMAIN copies |-> Printed(n, Pieces(n), copies[i])]

\* Nothing is opened or closed between two lines.
Together(n, m) ==
    /\ Directives(SubSeq(lines, n + 1, m - 1)) = <<>>
    /\ \A i \in DOMAIN lines[n] : lines[n][i].is # "close"
    /\ \A i \in DOMAIN lines[m] : lines[m][i].is # "open"

\* A template whose directives are in place is rendered if and only if they match, and
\* then each line is printed for every item its wrappers say, with what that item has or
\* else what is around it has, in the order of the items; lines of one block together.
TemplatesMeanWhatTheySay ==
    (\A n \in DOMAIN lines : InPlace(lines[n])) =>
        /\ Len(frames) = 1 <=> Directives(lines) = <<>>
        /\ receipt.ok => \E print \in Prints :
              /\ \A n \in DOMAIN lines : HasText(n) =>
                    SelectSeq(receipt.printed, LAMBDA p : p.line = n) = Expected(n, print)
              /\ \A n, m \in DOMAIN lines :
                    n < m /\ HasText(n) /\ HasText(m) /\ Together(n, m) =>
                       SelectSeq(receipt.printed, LAMBDA p : p.line \in {n, m})
                       = FlattenSeq([i \in DOMAIN Expected(n, print) |->
                            <<Expected(n, print)[i], Expected(m, print)[i]>>])

\* A column is as wide as it asks to be; the others fill the line, none of them vanishes,
\* and none is narrower than one after it or by two than one before it.
ColumnsFillTheLine ==
    layout # NoLayout =>
        LET Auto(i) == layout.columns[i] = 0
            Sum(widths) == MapThenSumSet(LAMBDA i : widths[i], DOMAIN widths)
            auto == {i \in DOMAIN layout.columns : Auto(i)}
        IN  /\ \A i \in DOMAIN layout.columns \ auto : layout.widths[i] = layout.columns[i]
            /\ \A i, j \in auto : i < j =>
                  layout.widths[j] >= 1 /\ layout.widths[i] - layout.widths[j] \in {0, 1}
            /\ auto # {} => Sum(layout.widths) =
                  Max({layout.width, Sum(layout.columns) + Cardinality(auto)})

\* What a template says is what is printed.
ReceiptsReadAsWritten == TemplatesMeanWhatTheySay /\ ColumnsFillTheLine
=============================================================================
