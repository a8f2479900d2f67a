\* Every configuration of TxOptions and timeouts; the outcome checked
\* where withTx's COMMIT cannot be interrupted.
SPECIFICATION Spec
INVARIANT OutcomeTruthfulWithTx
