--------------------------- MODULE MCJobAttempts ---------------------------
(* Profiles for TLC: a job of any kind with any defect its code meets, or  *)
(* commands that compete for the threads.                                  *)
EXTENDS JobAttempts

CONSTANTS j1, j2

AnyJob ==
    LET P(kind, places, paths) ==
            [kind: {kind}, defect: {"none"} \cup Meets(kind), retry: {NoRetry, 2},
             place: places, path: paths]
    IN P("command", {"fresh"}, {"relative", "absolute"})
       \cup P("command", {"pinned"}, {"relative"})
       \cup P("file_transfer", {"object", "sftp"}, {"relative"})
       \cup UNION {P(kind, {"fresh"}, {"relative"}) : kind \in {"rest", "transform", "sql"}}

ProfilesOf == [j \in Jobs |-> AnyJob]

PlainCommand == [kind: {"command"}, defect: {"none"}, retry: {1}, place: {"fresh"},
                 path: {"relative"}]
CommandsOnly == [j \in Jobs |-> PlainCommand]
============================================================================
