SPECIFICATION Spec
CONSTANTS
  Nodes = 4
  Groups = {0, 1, 2}
  Preferred = 2
  Shapes <- MCShapes
  Tiers <- MCTiers
  DefaultTier = 2
INVARIANTS TypeOK ChainInOrder UniformChainFound 
PROPERTIES ChainKept
