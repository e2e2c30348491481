------------------------------- MODULE Paging -------------------------------
(***************************************************************************)
(* The pages of the telemetry lists: what the routes of                    *)
(* src/http/routes/telemetry make of limit and offset, and what ORDER BY   *)
(* timestamp, LIMIT and OFFSET of src/observability/storage.ts make of the *)
(* rows a filter finds.                                                    *)
(***************************************************************************)
EXTENDS Integers, Sequences, SequencesExt, FiniteSetsExt

\* A parameter that is absent or no number; what is below zero is one, too.
Absent == -1

(* parseNum: its default for what is no number, and no more than its most.  *)
ParseNum(asked, default, most) == IF asked < 0 THEN default ELSE Min({asked, most})

Page(asked, default, most) ==
    [limit |-> ParseNum(asked.limit, default, most), order |-> asked.order,
     offset |-> ParseNum(asked.offset, 0, asked.offset)]

(* Rows are inserted in the order of time, and those of one instant stay in *)
(* the order of their ids.                                                  *)
Paged(found, page) ==
    LET ordered == IF page.order = "asc" THEN found ELSE Reverse(found)
    IN  SubSeq(ordered, page.offset + 1, Min({page.offset + page.limit, Len(ordered)}))

----------------------------------------------------------------------------
(* What a reader gets that asks the list for page after page, and goes on   *)
(* by the limit that the first answer tells (List(offset) is an answer).    *)
Pages(List(_)) ==
    LET first == List(Absent)
    IN  FlattenSeq([n \in 1..first.total |->
            IF n = 1 THEN first.items
            ELSE IF (n - 1) * first.limit < first.total
            THEN List((n - 1) * first.limit).items ELSE <<>>])

(* It gets as many rows as the list counts, and the first of them are the   *)
(* export.                                                                  *)
Complete(List(_), exported, most) ==
    LET first == List(Absent)
        pages == Pages(List)
    IN  first.limit > 0 =>
          /\ Len(pages) = first.total
          /\ exported = SubSeq(pages, 1, Min({most, first.total}))
=============================================================================
