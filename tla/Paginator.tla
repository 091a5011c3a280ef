------------------------------- MODULE Paginator -------------------------------
(***************************************************************************)
(* The page buttons under the list of scheduled broadcasts: which pages    *)
(* InlineKeyboardPaginator offers to an administrator on page `current` of *)
(* `total`.                                                                *)
(***************************************************************************)
EXTENDS Naturals

\* How many pages n items make, and how many items are on one of them.
TotalPages(n, size)  == (n + size - 1) \div size
OnPage(n, size, page) ==
    LET before == (page - 1) * size
    IN  IF n <= before THEN 0
        ELSE IF n - before < size THEN n - before ELSE size

OfferedShort(current, total) ==  \* slip: the middle starts one page too late
    IF total <= 1 THEN {}
    ELSE {current} \cup
         (IF total <= 5 THEN 1..total
          ELSE IF current <= 4 THEN 1..4 \cup {total}
          ELSE IF current + 3 > total THEN {1} \cup (total - 3)..total
          ELSE {1, current - 1, current + 1, total})

OfferedFromZero(current, total) ==  \* slip: pages are counted from 0
    IF total <= 1 THEN {} ELSE {current} \cup 0..total

Offered(current, total) ==
    IF total <= 1 THEN {}
    ELSE {current} \cup
         (IF total <= 5 THEN 1..total
          ELSE IF current <= 3 THEN 1..4 \cup {total}
          ELSE IF current + 3 > total THEN {1} \cup (total - 3)..total
          ELSE {1, current - 1, current + 1, total})
=============================================================================
