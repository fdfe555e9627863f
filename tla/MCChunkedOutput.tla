-------------------------- MODULE MCChunkedOutput --------------------------
(***************************************************************************)
(* Files, tables and options for ChunkedOutput.                             *)
(***************************************************************************)
EXTENDS ChunkedOutput, TLC

(***************************************************************************)
(* Parquet: two row groups of four rows from two sources, a flat column and  *)
(* a list column.                                                           *)
(***************************************************************************)
Page(rows, bytes, cont) == [rows |-> rows, bytes |-> bytes, out |-> bytes, cont |-> cont]

\* The rows that start in each page of a column of a group.
FlatPages == {[k \in DOMAIN s |-> Page(s[k], s[k], FALSE)] : s \in {<<4>>, <<1, 3>>, <<1, 1, 2>>}}
ListPages == UNION {{[k \in DOMAIN s |-> Page(s[k], b[k], k > 1)] : b \in [DOMAIN s -> {1, 4}]} :
                    s \in {<<2, 2>>, <<1, 0, 3>>, <<2, 1, 1>>}}
Group(source, pages) == [rows |-> 4, source |-> source, packed |-> 3, pages |-> pages]
SecondFlat == <<Page(2, 2, FALSE), Page(2, 2, FALSE)>>
SecondList == <<Page(1, 4, FALSE), Page(3, 1, TRUE)>>
FilesOf(lists, firsts, second) ==
  {[lists |-> lists, groups |-> <<Group(1, f), Group(2, second)>>] : f \in firsts}
ParquetFiles ==
  FilesOf(<<FALSE, TRUE>>, {<<a, b>> : a \in FlatPages, b \in ListPages}, <<SecondFlat, SecondList>>)
    \cup FilesOf(<<TRUE, FALSE>>, {<<b, a>> : a \in FlatPages, b \in ListPages}, <<SecondList, SecondFlat>>)

\* Limits on what is read: one that makes a subpass of nearly every page, one that fits a
\* group and one that fits both.
LimitedReads == [file : ParquetFiles, skip : {0}, num : {100}, chunkLimit : {0, 5},
                 passLimit : {4, 15, 25}, junk : {0, 7}]
PlainReads == [file : ParquetFiles, skip : {0}, num : {5, 100}, chunkLimit : {0, 1, 5},
               passLimit : {0}, junk : {0}]
MCParquetRequests == LimitedReads \cup PlainReads

\* num_rows together with a limit on what is read.
MCEmptyTables == {[r EXCEPT !.num = 5] : r \in LimitedReads}

(***************************************************************************)
(* Tables to pack.                                                          *)
(***************************************************************************)
Column(type, n, data, mask, children) ==
  [kind |-> type, offset |-> 0, size |-> n, data |-> data, mask |-> mask, children |-> children]
Fixed(n, mask) == Column("fixed", n, [i \in 1 .. n |-> 10 + i], mask, <<>>)
Offsets(o) == Column("fixed", Len(o), o, <<>>, <<>>)
Strings(o, mask) == Column("string", Len(o) - 1, [i \in 1 .. o[Len(o)] |-> i], mask, <<Offsets(o)>>)
Lists(o, mask, child) == Column("list", Len(o) - 1, <<>>, mask, <<Offsets(o), child>>)
Struct(n, mask, children) == Column("struct", n, <<>>, mask, children)
Sliced(col, offset, n) == [col EXCEPT !.offset = offset, !.size = n]

Numbers == Fixed(7, <<1, 0, 1, 1, 0, 1, 0>>)
Words7 == Strings(<<0, 2, 2, 3, 3, 5, 6, 9>>, <<1, 1, 0, 1, 1, 1, 1>>)
ListOf(child, mask) == Lists(<<0, 2, 2, 5, 7>>, mask, child)
Pairs == Struct(4, <<1, 0, 1, 1>>,
                <<ListOf(Numbers, <<>>), Fixed(4, <<0, 1, 1, 0>>), Strings(<<0, 1, 3, 3, 4>>, <<>>)>>)
\* As empty_like makes them: no offsets, or offsets without an element.
NoStrings == Column("string", 0, <<>>, <<>>, <<>>)
NoLists == Column("list", 0, <<>>, <<>>, <<Offsets(<<>>), Fixed(0, <<>>)>>)
Nested == {ListOf(Numbers, <<1, 0, 1, 1>>), ListOf(Words7, <<>>),
           Lists(<<0, 1, 1, 4>>, <<1, 0, 1>>, ListOf(Numbers, <<1, 1, 0, 1>>)),
           Pairs, Struct(4, <<>>, <<Pairs>>), Lists(<<0, 1, 1, 4>>, <<1, 1, 0>>, Pairs),
           Lists(<<0, 0, 0, 0>>, <<1, 1, 0>>, NoStrings), Lists(<<0, 0, 0, 0>>, <<>>, NoLists)}
Tables == {<<Sliced(Numbers, o, n)>> : o \in 0 .. 2, n \in {0, 3, 5}}
            \cup {<<Sliced(Words7, o, n), Sliced(Numbers, o, n)>> : o \in 0 .. 2, n \in {3, 5}}
            \cup {<<Sliced(c, o, 2)>> : c \in Nested, o \in {0, 1}}
SplitsOf(n) == {<<>>} \cup {<<a>> : a \in 0 .. n}
                 \cup {<<a, b>> : a \in 0 .. n, b \in 0 .. n}
IsSorted(s) == \A i \in 1 .. Len(s) - 1 : s[i] <= s[i + 1]
MCPackRequests ==
  UNION {[table : {t}, splits : {s \in SplitsOf(t[1].size) : IsSorted(s)}, userBuffer : {0}, junk : {1}] : t \in Tables}
    \cup [table : Tables, splits : {<<>>}, userBuffer : {8, 20, 1000}, junk : {1}]
MCPackOnly == [table : Tables, splits : {<<>>}, userBuffer : {8, 1000}, junk : {1}]
=============================================================================
