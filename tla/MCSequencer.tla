----------------------------- MODULE MCSequencer -----------------------------
(* Sequencer on nine programs: two rules that count the failures of a      *)
(* test; an OR and an AND of two rules; members of a test, a rule and a    *)
(* gate, some of them of the gate only; a rule on the health of a          *)
(* component; and two workers at once.                                     *)
EXTENDS Sequencer

CONSTANTS t, u, p, q, g, K, Whole, i, j

Type(op, n, m) == [op |-> op, n |-> n, m |-> m]
Kinds(kinds) == kinds \X {0}

(* Two rules of the component K, and one of the one it is in *)
Plain ==
    [first |-> [x \in Tests |-> IF x = t THEN p ELSE q],
     next |-> [r \in Rules |-> None],
     output |-> [r \in Rules |-> None],
     inputs |-> [r \in Rules |-> IF r = p THEN {t} ELSE IF r = q THEN {u} ELSE {}],
     insts |-> [o \in Objs |-> <<>>],
     type |-> [r \in Rules |-> Type("ON_FAIL", 0, 0)],
     home |-> [x \in Rules \cup Comps |->
                  IF x = Whole THEN None ELSE IF x \in {p, q} THEN K ELSE Whole],
     severity |-> [r \in Rules |-> IF r = g THEN 0 ELSE 1],
     watches |-> [x \in Tests |-> None],
     given |-> [x \in Tests |-> Kinds({"PASS", "FAIL"})],
     off |-> {}, doubted |-> {},
     pool |-> {1}, touched |-> {},
     patient |-> <<p, Base>>]

Counts ==
    [Plain EXCEPT !.first = [x \in Tests |-> IF x = t THEN p ELSE None],
                  !.next = [r \in Rules |-> IF r = p THEN q ELSE None],
                  !.type = [r \in Rules |-> IF r = p THEN Type("N_IN_ROW", 2, 0)
                                            ELSE Type("N_IN_M", 2, 3)],
                  !.inputs = [r \in Rules |-> IF r = g THEN {} ELSE {t}],
                  !.given = [x \in Tests |-> IF x = t THEN Kinds({"PASS", "FAIL", "ABORT"})
                                             ELSE {}]]

Gate(op, off) ==
    [Plain EXCEPT !.output = [r \in Rules |-> IF r = g THEN None ELSE g],
                  !.inputs = [r \in Rules |-> IF r = p THEN {t} ELSE IF r = q THEN {u}
                                              ELSE {p, q}],
                  !.type = [r \in Rules |-> IF r = g THEN Type(op, 0, 0)
                                            ELSE Type("ON_FAIL", 0, 0)],
                  !.severity = [r \in Rules |-> IF r = g THEN -1 ELSE 1],
                  !.off = off, !.patient = <<g, Base>>]

Split ==
    [Plain EXCEPT !.insts = [o \in Objs |-> IF o = u THEN <<i>>
                                            ELSE IF o \in {q, g} THEN <<i, j>> ELSE <<>>],
                  !.first = [x \in Tests |-> IF x = u THEN q ELSE None],
                  !.output = [r \in Rules |-> IF r = q THEN g ELSE None],
                  !.inputs = [r \in Rules |-> IF r = q THEN {u} ELSE IF r = g THEN {q} ELSE {}],
                  !.type = [r \in Rules |-> Type(IF r = g THEN "OR" ELSE "ON_FAIL", 0, 0)],
                  !.severity = [r \in Rules |-> 0],
                  !.patient = <<q, j>>,
                  !.given = [x \in Tests |-> IF x = u THEN Kinds({"PASS", "FAIL"}) ELSE {}]]

(* The gate has members that its input has not: all of them, or but one *)
Apart(insts) ==
    [Split EXCEPT !.insts = [o \in Objs |-> IF o \in {u, q} THEN <<j>>
                                            ELSE IF o = g THEN insts ELSE <<>>]]

Watch ==
    [Plain EXCEPT !.watches = [x \in Tests |-> IF x = u THEN K ELSE None],
                  !.home = [x \in Rules \cup Comps |->
                              IF x = Whole THEN None ELSE IF x = p THEN K ELSE Whole],
                  !.type = [r \in Rules |-> IF r = q THEN Type("LESS_THAN_N", Full, 0)
                                            ELSE Type("ON_FAIL", 0, 0)],
                  !.given = [x \in Tests |-> IF x = t THEN Kinds({"PASS", "FAIL"}) ELSE {}],
                  !.severity = [r \in Rules |-> IF r = p THEN 2 ELSE IF r = q THEN 1 ELSE 0],
                  !.touched = {q, K}, !.patient = <<q, Base>>]

(* A test that fails and passes as it likes, and two workers to see to it *)
Busy(doubted) ==
    [Plain EXCEPT !.given = [x \in Tests |-> IF x = t THEN Kinds({"PASS", "FAIL"}) ELSE {}],
                  !.doubted = doubted, !.patient = <<IF doubted = {} THEN p ELSE g, Base>>,
                  !.pool = Workers]

MCSetups == <<Counts, Gate("OR", {}), Gate("AND", {q}), Split, Apart(<<i>>),
              Apart(<<i, j>>), Watch, Busy({}), Busy({p})>>
MCNewTypes == {Type("N_IN_M", 1, 4)}
=============================================================================
