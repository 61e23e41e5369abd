---- MODULE MCCatalogManager ----
\* TLC instance of CatalogManager.
EXTENDS CatalogManager, TLC

\* A manager without a resource cache, so that a part is skipped.
AllButResources == Parts \ {"resources"}

\* Payload revisions TLC tries: valid ones; a negative one, which the cast makes the largest.
ValidRevisions == {1, 2, 3}
NegativeToo == {-1, 1, 2}

====
