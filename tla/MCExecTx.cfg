\* Every combination of TxOptions, statement timeout and datasource
\* timeout, with Stop possible at any point.
SPECIFICATION Spec
INVARIANT OutcomeTruthful
