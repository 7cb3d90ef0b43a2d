----------------------------- MODULE MCLLMProxy -----------------------------
\* Instances of the LLM proxy for TLC.
EXTENDS LLMProxy, TLC

\* DefaultPrefix
MountPath == <<"llm">>

\* defaultBaseURL, one with a trailing slash, and one with a "?" in it
OpenRouter == [scheme |-> "https", host |-> "openrouter", path |-> <<"api", "v1">>, mark |-> ""]
SlashBase == [scheme |-> "http", host |-> "local", path |-> <<"v1", "">>, mark |-> ""]
MarkedBase == [scheme |-> "http", host |-> "local", path |-> <<"v1">>, mark |-> "?"]
BaseURLs == {OpenRouter, SlashBase, MarkedBase}

\* Runs and requests have no order.
Symmetry == Permutations(Runs) \cup Permutations(Requests)
=============================================================================
