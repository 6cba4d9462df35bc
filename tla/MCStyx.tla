------------------------------- MODULE MCStyx -------------------------------
(* Small workloads for Styx. *)
EXTENDS Styx

Acts(counts) ==
    [kind \in {"process.exec", "wasm.invoke", "refused", "remote.execute",
               "pty.open", "pty.write", "pty.resize", "pty.close"} |->
        IF kind \in DOMAIN counts THEN counts[kind] ELSE 0]

Processes == Acts([kind \in {"process.exec", "wasm.invoke", "refused"} |-> 1])
Container == Acts([kind \in {"process.exec", "remote.execute"} |-> 1])
OneTerminal == Acts([kind \in {"pty.open", "pty.write", "pty.resize", "pty.close"} |-> 1])
TwoTerminals == Acts([kind \in {"pty.open", "pty.close"} |-> IF kind = "pty.open" THEN 2 ELSE 1])
Together == Acts([kind \in {"process.exec", "pty.open"} |-> 1])

\* One terminal whose ring runs full and over; a name that is taken, before or after a
\* close; a process while a terminal is open; processes and a container by themselves.
Small == {[acts |-> OneTerminal, output |-> 4], [acts |-> TwoTerminals, output |-> 1],
          [acts |-> Together, output |-> 0], [acts |-> Processes, output |-> 0],
          [acts |-> Container, output |-> 0]}
=============================================================================
