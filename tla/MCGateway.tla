------------------------------ MODULE MCGateway ------------------------------
EXTENDS Gateway

CONSTANTS c1, c2, c3

Ask(prompt, override, provider, tier, demo) ==
  [prompt |-> prompt, override |-> override, provider |-> provider,
   tier |-> tier, demo |-> demo]

MCWords == {":", "default", "cheap", "premium", "override", "openrouter", "azure", "m", "p"}

\* A cheap request, a demo request of the other tier, and one whose model is called
\* "default" and whose prompt begins with "cheap:", like the cache key of the first.
MCRequestOf ==
  [c \in {c1, c2, c3} |->
     CASE c = c1 -> Ask(<<"p">>, None, None, <<"cheap">>, FALSE)
       [] c = c2 -> Ask(<<"cheap", ":", "p">>, <<"default">>, None, <<"override">>, FALSE)
       [] c = c3 -> Ask(<<"p">>, None, None, <<"premium">>, TRUE)]

\* The same prompt and model override, with and without a provider.
MCProviderRequestOf ==
  [c \in {c1, c2} |->
     Ask(<<"p">>, <<"m">>, IF c = c1 THEN None ELSE <<"azure">>, <<"override">>, FALSE)]
=============================================================================
