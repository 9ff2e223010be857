SPECIFICATION AccessSpec
CONSTANT Programs <- MCPrograms
INVARIANTS AccessTypeOK TypesAreCurrent InOrderAllZeroed  MembersAsDeclared
