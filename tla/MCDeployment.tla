---------------------------- MODULE MCDeployment ----------------------------
EXTENDS Deployment

\* The second commit brings 0002, the third only code.
MCRevision == <<1, 2, 2>>

=============================================================================
