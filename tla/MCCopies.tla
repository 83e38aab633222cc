------------------------------ MODULE MCCopies ------------------------------
EXTENDS Copies
ModelOperations == {"GET_SYMBOL", "SET_FIELD", "LITERAL", "INSTANCEOF", "NATIVE"}
=============================================================================
