------------------------------ MODULE MCRouterServer ------------------------------
EXTENDS RouterServer, Bitwise

c1 == "c1"
Ask(policy, provider, payload, sensitive, valid) ==
    [policy |-> policy, provider |-> provider, payload |-> payload,
     sensitive |-> sensitive, valid |-> valid]
MCScenarios ==
    {[inputs |-> {"cancel", "chunks"}, local |-> TRUE, files |-> {"open"},
      requests |-> {"r1"}, kinds |-> {"chat"},
      chats |-> {Ask("remote_preferred", "acme", "prompt", FALSE, TRUE)}],
     [inputs |-> {"calls"}, local |-> TRUE, files |-> {"open"},
      requests |-> {"r1"}, kinds |-> {"chat"},
      chats |-> {Ask("local_preferred", "acme", "prompt", FALSE, TRUE)}],
     [inputs |-> {"eof", "gone", "sigterm"}, local |-> TRUE, files |-> {"open"},
      requests |-> {"r1"}, kinds |-> {"chat", "invalid"},
      chats |-> {Ask("local_only", "none", "prompt", FALSE, TRUE)}],
     [inputs |-> {"eof"}, local |-> TRUE, files |-> {"absent"},
      requests |-> {"r1"}, kinds |-> {"status", "get", "preview", "update", "bad"},
      chats |-> {Ask("local_only", "none", "prompt", FALSE, TRUE)}],
     [inputs |-> {}, local |-> TRUE, files |-> {"absent"},
      requests |-> {"r1", "r2"}, kinds |-> {"bad", "get"},
      chats |-> {Ask("local_only", "none", "prompt", FALSE, FALSE)}]}
MCCategoriesOf == [p \in {"prompt", "journal", "key"} |->
    IF p = "journal" THEN {"user_prompt", "journal"} ELSE {"user_prompt"}]
MCEligibleIn == [s \in {"closed", "open"} |-> IF s = "open" THEN {"user_prompt"} ELSE {}]
MCPreferredIn == [s \in {"closed", "open"} |-> IF s = "open" THEN "acme" ELSE "none"]
MCCalls == {<<<<c1, "read">>>>, <<<<c1, "propose">>>>, <<<<c1, "refused">>>>}
MCNonce(n, t) == n ^^ t
=============================================================================
