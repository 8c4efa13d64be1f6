--------------------------- MODULE MCMaintenance ---------------------------
(***************************************************************************)
(* Instances of Maintenance for TLC: the specs users write.  The defaults  *)
(* are a delay of 1 and a duration of 2.                                   *)
(***************************************************************************)
EXTENDS Maintenance

Base == [targeted |-> TRUE, valid |-> TRUE,
         since |-> 0, delay |-> 0, until |-> 0, duration |-> 0]

\* A usable spec with the default window.
Usable == Base
\* The same window, but stages or nodeSelector are missing.
Unusable == [Base EXCEPT !.valid = FALSE]
\* A short window with all its bounds given.
Short == [Base EXCEPT !.since = 1, !.delay = 1, !.until = 3]
\* Not for the namespace of this controller.
Foreign == [Base EXCEPT !.targeted = FALSE]

\* If the default delay is 0: a window that opens late, and one that closes early,
\* or before it opens if the object is not created at once.
Later == [Base EXCEPT !.since = 2, !.duration = 9]
Brief == [Base EXCEPT !.until = 2]

EditedSpecs == {Usable, Unusable}
RoamingSpecs == {Usable, Unusable, Foreign}
WindowSpecs == {Later, Brief}
OneSpec == {Short}

\* A bound on operations of users, failing calls and restarts together: three of
\* them until the window of an object made at once is open, two until it has closed.
FewDisturbances ==
    LET disturbances == userOps + errors + crashes
    IN  disturbances <= 3 /\ now + 2 * disturbances <= 8

\* Either a user acts again on the object, or calls fail and the process dies.  Neither
\* is undone, so what is left are whole behaviours.
UsersOrFaults == userOps <= 1 \/ errors + crashes = 0
=============================================================================
