------------------------------ MODULE MCRouter ------------------------------
EXTENDS Router, Bitwise

c1 == "c1"
Ask(policy, provider, payload, sensitive, valid) ==
    [policy |-> policy, provider |-> provider, payload |-> payload,
     sensitive |-> sensitive, valid |-> valid]
MCScenarios ==
    {[inputs |-> {"preview", "tick"}, local |-> FALSE, files |-> {"open"}, requests |-> {"r1", "r2"},
      chats |-> {Ask("ask_before_remote", "acme", "journal", TRUE, TRUE)}],
     [inputs |-> {"preview", "crash"}, local |-> FALSE, files |-> {"open"}, requests |-> {"r1", "r2"},
      chats |-> {Ask("ask_before_remote", "acme", "journal", TRUE, TRUE)}],
     [inputs |-> {"update", "crash"}, local |-> TRUE, files |-> {"absent", "open"}, requests |-> {"r1"},
      chats |-> {Ask("remote_preferred", "none", "prompt", FALSE, TRUE),
                 Ask("local_preferred", "acme", "prompt", FALSE, TRUE),
                 Ask("remote_preferred", "acme", "journal", FALSE, TRUE)}],
     [inputs |-> {"status", "tick", "cancel"}, local |-> TRUE, files |-> {"open"}, requests |-> {"r1", "r2"},
      chats |-> {Ask("remote_preferred", "acme", "prompt", FALSE, TRUE)}],
     [inputs |-> {"chunks", "calls", "cancel"}, local |-> TRUE, files |-> {"open"}, requests |-> {"r1"},
      chats |-> {Ask("local_preferred", "acme", "prompt", FALSE, TRUE),
                 Ask("remote_preferred", "acme", "prompt", FALSE, TRUE),
                 Ask("local_only", "none", "prompt", FALSE, FALSE),
                 Ask("local_preferred", "acme", "prompt", TRUE, TRUE),
                 Ask("remote_preferred", "unregistered", "prompt", FALSE, TRUE),
                 Ask("remote_preferred", "acme", "key", FALSE, TRUE)}]}
MCCategoriesOf == [p \in {"prompt", "journal", "key"} |->
    IF p = "journal" THEN {"user_prompt", "journal"} ELSE {"user_prompt"}]
MCEligibleIn == [s \in {"closed", "open"} |-> IF s = "open" THEN {"user_prompt"} ELSE {}]
MCPreferredIn == [s \in {"closed", "open"} |-> IF s = "open" THEN "acme" ELSE "none"]
MCCalls == {<<<<c1, "read">>, <<c1, "read">>>>, <<<<c1, "propose">>>>, <<<<c1, "refused">>>>}
MCNonce(n, t) == n ^^ t
=============================================================================
