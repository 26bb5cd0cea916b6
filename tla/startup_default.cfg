SPECIFICATION NodeSpec
CONSTANTS
  gold = gold
  silver = silver
  Services = {gold, silver}
  DEFAULT_SERVICE = DEFAULT_SERVICE
  NoService = NoService
INVARIANT DefaultServiceServes
