---------------------------- MODULE MCMediaStore ----------------------------
(* Two files: the second over HTTP with the same content, or chunked too with *)
(* another one; and what may happen beside their downloads.                  *)
EXTENDS MediaStore

CONSTANTS a, b

Left(jobs, reads, faults, tidies, stops, losses) ==
  [what \in Upsets |-> CASE what = "jobs"   -> jobs
                         [] what = "reads"  -> reads
                         [] what = "faults" -> faults
                         [] what = "tidies" -> tidies
                         [] what = "stops"  -> stops
                         [] OTHER           -> losses]

Same == [f \in {a, b} |-> "x"]
Another == [f \in {a, b} |-> IF f = a THEN "x" ELSE "y"]

MCFiles == {a, b}
MCCases ==
  {<<{b}, Same, Left(2, 0, 1, 0, 1, 0)>>, <<{b}, Same, Left(2, 1, 0, 1, 1, 0)>>,
   <<{}, Another, Left(2, 0, 1, 0, 1, 0)>>, <<{}, Another, Left(2, 0, 0, 1, 0, 0)>>,
   <<{}, Another, Left(1, 1, 0, 1, 1, 0)>>,
   <<{}, Another, Left(2, 0, 0, 0, 1, 1)>>}
MCFirstId == [f \in {a, b} |-> IF f = a THEN 1 ELSE 2]
============================================================================
