SPECIFICATION MCSpec
CONSTANTS
  Proposals <- MCProposals
  ChildProposals <- MCChildProposals
  ChildNonces = {n1, n2}
  MaxDerivations = 2
INVARIANTS OnlySupported KeysAgree KeysDisjoint ChildKeysAgree
INVARIANTS SuitesAgree ChoiceWasOffered
PROPERTY ChoiceIsCompleted
CHECK_DEADLOCK FALSE
