------------------------------ MODULE MCBookSync ------------------------------
EXTENDS BookSync

ThreePrices == 1..3
===============================================================================
