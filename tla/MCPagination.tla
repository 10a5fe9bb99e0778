---------------------------- MODULE MCPagination ----------------------------
(* Four documents; the rows 2 and 3 share a timestamp. *)
EXTENDS Pagination, TLC

MCStamp == (1 :> 1 @@ 2 :> 2 @@ 3 :> 2 @@ 4 :> 3)

(* No filter, a range with a hole, one document, and all but one _id. *)
MCFilters == {<<>>, <<Cond("field", "BETWEEN", 2, 4), Cond("field", "!=", 3, 0)>>,
              <<Cond("field", "=", 2, 0)>>, <<Cond("_id", "!=", 2, 0)>>}

(* Rows sorted by rank are the rows as SortSeq sorts them. *)
ASSUME IdsSortedExact ==
    IdsSorted = [asc \in BOOLEAN |-> [S \in SUBSET Ids |->
                    SetToSortSeq(S, LAMBDA a, b : <<a, b>> \in IdOrder(asc))]]

ASSUME TimesSortedExact ==
    TimesSorted = [asc \in BOOLEAN |-> [flip \in BOOLEAN |-> [S \in SUBSET Ids |->
                      SetToSortSeq(S, LAMBDA a, b : <<a, b>> \in TimeOrder(asc, flip))]]]
=============================================================================
