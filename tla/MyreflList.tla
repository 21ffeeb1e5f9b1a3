----------------------------- MODULE MyreflList -----------------------------
(***************************************************************************)
(* The singly linked lists of myrefl_util.c: every queue of the program    *)
(* (free threads, executing threads, pending jobs, scheduled tests) is one *)
(* of them.  Each operation runs under the list's own mutex, so it is one  *)
(* atomic function of the sequence of data pointers the list holds.        *)
(*                                                                         *)
(* The two ways to add an element differ in what no caller can see from    *)
(* the call: insert and add refuse an element the list already holds, push *)
(* does not look.                                                          *)
(***************************************************************************)
EXTENDS Naturals, Sequences, SequencesExt

(* myrefl_list_find *)
ListFind(list, data) == \E i \in 1..Len(list) : list[i] = data

(* myrefl_list_push: at the tail, duplicates and all *)
ListPush(list, data) == Append(list, data)

(* myrefl_list_insert: after the element at prev (0: before the head),     *)
(* unless the list holds data already                                      *)
ListInsert(list, prev, data) ==
    IF ListFind(list, data) THEN list ELSE InsertAt(list, prev + 1, data)

(* myrefl_list_add *)
ListAdd(list, data) == ListInsert(list, 0, data)

(* myrefl_list_remove: without the first element equal to data; what      *)
(* follows that element moves up one place                                 *)
ListRemove(list, data) ==
    IF ListFind(list, data)
    THEN [k \in 1..Len(list) - 1 |->
            IF \E i \in 1..k : list[i] = data THEN list[k + 1] ELSE list[k]]
    ELSE list

(* myrefl_list_peek and myrefl_list_pop return the head, and NULL (here    *)
(* null) when there is none; ListRest is what pop leaves                   *)
ListPeek(list, null) == IF list = <<>> THEN null ELSE Head(list)
ListRest(list) == IF list = <<>> THEN list ELSE Tail(list)

(* No element is on the list twice *)
NoDuplicates(list) ==
    \A i, j \in 1..Len(list) : list[i] = list[j] => i = j
=============================================================================
