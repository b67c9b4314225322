------------------------------ MODULE MCRunRecord ------------------------------
EXTENDS RunRecord
===============================================================================
