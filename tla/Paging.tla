-------------------------------- MODULE Paging --------------------------------
(***************************************************************************)
(* The arithmetic of pages (models/mod.rs and the listings that use it):   *)
(* what a client may leave out or ask for is brought into range, and the   *)
(* offset is computed in an i64, which holds -Half .. Half - 1.             *)
(***************************************************************************)
EXTENDS Integers, Sequences

CONSTANTS
  Half,          \* half of the values an i64 can have (2^63)
  DefaultLimit,  \* rows of a page that are not asked for (50)
  MaxLimit,      \* most rows of a page (200)
  Unset          \* a query parameter that was left out

ASSUME PagingAssumption ==
  /\ Half \in Nat \ {0}
  /\ MaxLimit \in 1 .. Half - 1
  /\ DefaultLimit \in 1 .. MaxLimit
  /\ Unset \notin Int

I64 == -Half .. Half - 1

(* page.unwrap_or(1).max(1), limit.unwrap_or(50).clamp(1, 200).            *)
ResolvedPage(page) == IF page = Unset \/ page < 1 THEN 1 ELSE page

ResolvedLimit(limit) ==
  IF limit = Unset THEN DefaultLimit
  ELSE IF limit < 1 THEN 1
  ELSE IF limit > MaxLimit THEN MaxLimit ELSE limit

(* The product as it should be, and as a release build keeps it.           *)
FirstIsOne(page, limit) == page * limit      \* slip: pages count from 0
Offset(page, limit) == (page - 1) * limit
Wrapped(n) == ((n + Half) % (2 * Half)) - Half
Overflows(page, limit) == Offset(page, limit) \notin I64

(* LIMIT and OFFSET; PostgreSQL refuses a negative one.                    *)
Page(rows, offset, limit) ==
  SubSeq(rows, offset + 1,
         IF offset + limit < Len(rows) THEN offset + limit ELSE Len(rows))
===============================================================================
