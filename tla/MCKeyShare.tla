------------------------------ MODULE MCKeyShare ------------------------------
EXTENDS KeyShare

CONSTANTS bob, carol, c1, c2

Bounds(pairs) == [what \in Happenings |->
                    IF \E p \in pairs : p[1] = what
                    THEN (CHOOSE p \in pairs : p[1] = what)[2] ELSE 0]

\* One scenario per row: the room changes while calls send; the key ages; requests fail;
\* the program stops; the period is edited.
Scenarios ==
  {Bounds({<<"changes", 2>>, <<"sends", 2>>, <<"refreshes", 1>>}),
   Bounds({<<"ages", 2>>, <<"sends", 2>>, <<"faults", 1>>}),
   Bounds({<<"changes", 1>>, <<"sends", 1>>, <<"refreshes", 1>>, <<"faults", 2>>}),
   Bounds({<<"changes", 1>>, <<"ages", 1>>, <<"sends", 1>>, <<"refreshes", 1>>,
            <<"crashes", 1>>}),
   Bounds({<<"edits", 1>>, <<"sends", 2>>, <<"refreshes", 1>>})}

OneOrBoth == {{bob}, {bob, carol}}
===============================================================================
