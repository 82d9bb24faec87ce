------------------------------ MODULE MCReplicas -----------------------------
(***************************************************************************)
(* Deployments for model checking Replicas.                                 *)
(***************************************************************************)
EXTENDS Replicas

-----------------------------------------------------------------------------
(* Drafts and files.                                                        *)

Para(words) == [kind |-> "text", value |-> 0, text |-> words, marks |-> <<>>]
Heading(words) == [kind |-> "text", value |-> 1, text |-> words, marks |-> <<>>]
Quote(blocks) == [kind |-> "quote", value |-> 0, children |-> blocks]
Leaf(kind, value) == [kind |-> kind, value |-> value]
Item(blocks) == [task |-> "none", children |-> blocks]
ListOf(items) == [kind |-> "list", value |-> "dash", items |-> items]
Table(columns, rows) ==
    [kind |-> "table", value |-> 0, rows |-> rows,
     columns |-> [i \in DOMAIN columns |-> [alignment |-> "none", header |-> columns[i]]]]

File(blocks) == [frontmatter |-> NoFrontmatter, blocks |-> blocks]

-----------------------------------------------------------------------------
(* Deployments.  Where concurrent edits are known to diverge (see README.md), *)
(* the two peers are given edits that stay clear of it.                      *)

Plain(file, edits1, edits2, n1, n2) ==
    [file |-> file, edits |-> <<edits1, edits2>>, budget |-> <<n1, n2>>,
     files |-> <<{}, {}>>, batches |-> {}, restructuring |-> {}, drafts |-> {},
     targets |-> {"text", "code", "raw", "quote"}]

\* Typing and splitting, at both.
Typing ==
    Plain(File(<<Quote(<<Para(<<"b", "c">>)>>)>>),
          {"InsertText"}, {"InsertText", "DeleteText", "SplitBlock"}, 2, 1)

\* Marks over text that changes.
Strong(from, to) == [kind |-> "strong", attrs |-> <<>>, from |-> from, to |-> to]
Marked(words) == [Para(words) EXCEPT !.marks = <<Strong(0, 1)>>]
Marking ==
    Plain(File(<<Marked(<<"a", "b">>)>>),
          {"SetMark", "RemoveMark"}, {"SetMark", "RemoveMark", "InsertText"}, 1, 2)

\* A block that moves between the top and two quotes.
Moving ==
    [Plain(File(<<Quote(<<Para(<<"a">>)>>), Quote(<<>>)>>),
           {"MoveBlock", "DeleteBlock"}, {"MoveBlock", "DeleteBlock"}, 2, 1)
        EXCEPT !.targets = {"text"}]

\* One peer restructures, the other types.
Restructuring ==
    [Plain(File(<<Quote(<<Para(<<"b", "c">>)>>)>>),
           {"SplitBlock", "MergeBlocks", "WrapBlocks", "UnwrapBlockQuote"},
           {"InsertText", "DeleteText"}, 2, 1)
        EXCEPT !.restructuring = {1}]

\* One peer moves a section and adds paragraphs, the other types.
Sectioning ==
    Plain(File(<<Heading(<<"a">>), Quote(<<Para(<<"b", "c">>)>>)>>),
          {"MoveSection", "InsertParagraph"}, {"InsertText", "DeleteText"}, 1, 1)

\* The items of two lists.
Listing ==
    Plain(File(<<ListOf(<<Item(<<Para(<<"a">>)>>), Item(<<>>), Item(<<>>)>>), ListOf(<<>>)>>),
          {"MoveListItem", "DeleteListItem", "SetListItemTask"},
          {"InsertListItem", "MoveListItem", "SetListItemTask", "SetListStyle"}, 1, 1)

\* The rows, and the columns, of a table.
Rowing ==
    Plain(File(<<Table(<<"h">>, <<<<"a">>, <<"b">>>>)>>),
          {"MoveTableRow", "DeleteTableRow", "InsertTableRow"},
          {"MoveTableRow", "SetTableCell", "SetTableRowCells"}, 1, 2)

Columning ==
    Plain(File(<<Table(<<"h", "i">>, <<<<"a", "b">>>>)>>),
          {"MoveTableColumn", "DeleteTableColumn", "InsertTableColumn", "SetTableMetadata"},
          {"MoveTableColumn", "SetTableColumnAlignment", "SetTableCell"}, 1, 1)

\* What is written as a whole: code, raw blocks and frontmatter, and new blocks of
\* several kinds, one of them too deep.
Writing ==
    [Plain(File(<<Leaf("code", "c"), Leaf("raw", "r")>>),
           {"SetCodeFence", "ReplaceRawBlock", "SetFrontmatterField", "InsertBlock"},
           {"SetCodeFence", "ReplaceRawBlock", "SetFrontmatterField", "InsertTable",
            "InsertHeading"}, 1, 1)
        EXCEPT !.drafts = {Quote(<<Para(<<"x">>)>>), ListOf(<<Item(<<Para(<<"x">>)>>)>>),
                           Quote(<<Quote(<<Quote(<<>>)>>)>>)}]

\* Files that reorder, rewrite, add and drop blocks, while the other peer types.
IngestingText ==
    [Plain(File(<<Heading(<<"a">>), Para(<<"b", "c">>), Quote(<<Para(<<"d">>)>>)>>),
           {}, {"InsertText", "DeleteText"}, 1, 1)
        EXCEPT !.files =
            <<{File(<<Para(<<"b", "c">>), Quote(<<Para(<<"d">>)>>), Heading(<<"a">>)>>),
               File(<<Heading(<<"a">>), Para(<<"c", "e">>), Leaf("raw", "r"), Quote(<<Para(<<"d">>)>>)>>),
               File(<<Heading(<<"a">>), Quote(<<Leaf("code", "c"), Para(<<"d", "d">>)>>)>>)},
              {}>>]

\* A file with a mark and frontmatter.
IngestingMarks ==
    [Plain(File(<<Para(<<"b", "c">>)>>), {}, {"InsertText", "DeleteText", "SetMark"}, 1, 1)
        EXCEPT !.files =
            <<{[File(<<Marked(<<"b", "c">>)>>)
                    EXCEPT !.frontmatter = ParseFrontmatter(<<[key |-> "tags", value |-> "x"]>>)]},
              {}>>]

\* Files that change a table.
IngestingTable ==
    [Plain(File(<<Table(<<"h">>, <<<<"a">>, <<"c">>>>)>>),
           {}, {"SetTableCell", "MoveTableRow", "DeleteTableRow"}, 1, 1)
        EXCEPT !.files =
            <<{File(<<Table(<<"h">>, <<<<"c">>, <<"a">>>>)>>),
               File(<<Table(<<"h">>, <<<<"e">>, <<"f">>, <<"c">>>>)>>),
               File(<<Table(<<"j", "k">>, <<<<"c", "l">>>>)>>)}, {}>>]

\* A batch previewed by one while the other edits.
BatchingText ==
    [Plain(File(<<Heading(<<"a">>), Quote(<<Para(<<"b">>)>>)>>),
           {}, {"InsertText", "DeleteText", "InsertParagraph"}, 1, 1)
        EXCEPT !.batches = {"InsertText", "DeleteText", "SetMark", "DeleteBlock", "InsertBlock"},
               !.drafts = {Leaf("raw", "r")}]

BatchingBlocks ==
    [Plain(File(<<Heading(<<"a">>), Quote(<<Para(<<"b">>)>>)>>),
           {}, {"InsertText", "ConvertTextBlock"}, 1, 1)
        EXCEPT !.batches = {"MoveBlock", "WrapBlocks", "UnwrapBlockQuote", "SplitBlock",
                            "MergeBlocks", "ConvertTextBlock"}]

BatchingItems ==
    [Plain(File(<<ListOf(<<Item(<<>>), Item(<<>>)>>), Table(<<"h">>, <<<<"a">>>>)>>),
           {}, {"SetListItemTask", "MoveListItem", "SetTableCell", "DeleteTableRow"}, 1, 1)
        EXCEPT !.batches = {"MoveListItem", "DeleteListItem", "SetTableCell", "MoveTableRow"}]

AllDeployments ==
    {Typing, Marking, Moving, Restructuring, Sectioning, Listing, Rowing, Columning, Writing,
     IngestingText, IngestingMarks, IngestingTable, BatchingText, BatchingBlocks, BatchingItems}

\* Paragraphs inserted one after the other by a single peer.
Landing == {Plain(File(<<Para(<<"a">>)>>), {"InsertParagraph"}, {}, 2, 0)}
====
