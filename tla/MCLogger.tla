------------------------------ MODULE MCLogger ------------------------------
(* An instance of Logger for TLC. *)
EXTENDS Logger, TLC

Program(decorator, buffer, loggers, r, i) ==
  [decorator |-> decorator, clear_state |-> FALSE, flush_uncaught |-> TRUE,
   buffer |-> buffer, flush_on_error |-> TRUE, level |-> "INFO", sampled |-> FALSE,
   constructor |-> {}, loggers |-> loggers, keys |-> FALSE,
   records |-> r, invocations |-> i]
\* Programs that buffer, and one whose level is drawn again and again.
Buffered == {Program("service", "INFO", {"service"}, 3, 2),
             Program("service", "DEBUG", {"service", "child"}, 3, 2),
             Program("child", "DEBUG", {"child"}, 3, 2),
             [Program(Never, "WARNING", {"child"}, 2, 3) EXCEPT !.flush_on_error = FALSE],
             [Program("service", Never, {"service"}, 2, 3) EXCEPT !.sampled = TRUE]}
\* Programs that change keys around a record.
Keyed == {[Program(p[1], "DEBUG", {"service"}, 1, 2) EXCEPT !.clear_state = p[2],
                                              !.constructor = {"user"}, !.keys = TRUE] :
            p \in {<<"service", FALSE>>, <<"service", TRUE>>, <<"child", TRUE>>}}
Symmetry == Permutations(Traces)
MCApps == Buffered \cup Keyed
=============================================================================
